---- MODULE Spec2Model ----
(***************************************************************************)
(* The resource-sharing ledger of src/hyperledger/ledger.py: Transaction,  *)
(* Block, Blockchain, ResourceManager, User and ResourceSharingSystem.     *)
(*                                                                         *)
(* Representation.                                                         *)
(*  - Amounts (Python floats) are fixed-point integers in units of 1/Scale *)
(*    credit, sizes in units of 1/Scale GB.  The inputs are confined to    *)
(*    values on which the float arithmetic of the source is exact in this  *)
(*    representation (amount * 0.001 is a whole number of units).          *)
(*  - A SHA-256 digest is the record [of |-> s, lead |-> n]: `of' is the   *)
(*    hashed string (kept, so that different strings have different        *)
(*    digests), `lead' stands for the leading HexLen hex digits, a         *)
(*    deterministic mix of the numeric parts of the string.                *)
(*  - time.time() is the variable clock, which Tick advances.              *)
(*  - reward_halving_interval, an attribute of the Blockchain object that   *)
(*    no method assigns, is a variable that no action changes: Spec starts  *)
(*    it at the constructor's 210000, RewardSpec at shorter intervals.      *)
(*  - Spec is the system called through ResourceSharingSystem and           *)
(*    Blockchain.add_transaction; RegistrySpec adds the calls of a user's   *)
(*    ResourceManager.                                                      *)
(***************************************************************************)
EXTENDS Integers, Sequences, FiniteSets, TLC

VARIABLES chain, pending_transactions, reward_halving_interval, users, clock,
          last, lock, threads

vars == <<chain, pending_transactions, reward_halving_interval, users, clock,
         last, lock, threads>>

-----------------------------------------------------------------------------
(* Bounds of the model *)

MaxChain == 3
MaxPending == 2
MaxClock == 1
MaxPublished == 1

-----------------------------------------------------------------------------
(* Program constants *)

Scale == 10000
Credits(c) == c * Scale

difficulty == 2
mining_reward == Credits(50)
initial_credit == Credits(10000)

Handles == {"Alice", "Bob"}

-----------------------------------------------------------------------------
(* hashlib.sha256(...).hexdigest() *)

HexLen == 3
HexSpace == 4096

Sha256(str, mix) == [of |-> str, lead |-> mix % HexSpace]

\* h[:n], the first n hex digits of a digest
HexPrefix(h, n) ==
    LET digits == <<(h.lead \div 256) % 16, (h.lead \div 16) % 16, h.lead % 16>>
    IN  SubSeq(digits, 1, n)

\* '0' * n
Zeros(n) == [i \in 1..n |-> 0]

\* User.__init__: sha256(f"{username}{time.time()}").hexdigest()[:16]
Address(username, now) == username \o "@" \o ToString(now)

-----------------------------------------------------------------------------
(* Transaction *)

EmptyDict == <<>>

Transaction_calculate_hash(tx) ==
    Sha256(<<tx.sender, tx.receiver, tx.amount, tx.transaction_type,
             tx.timestamp, tx.resource_data>>,
           tx.amount + tx.timestamp)

Transaction(sender, receiver, amount, transaction_type, resource_data, now) ==
    LET tx == [sender |-> sender, receiver |-> receiver, amount |-> amount,
               transaction_type |-> transaction_type,
               resource_data |-> resource_data, timestamp |-> now]
    IN  [sender |-> sender, receiver |-> receiver, amount |-> amount,
         transaction_type |-> transaction_type,
         resource_data |-> resource_data, timestamp |-> now,
         hash |-> Transaction_calculate_hash(tx)]

-----------------------------------------------------------------------------
(* Block *)

RECURSIVE SumLead(_)
SumLead(txs) ==
    IF txs = <<>> THEN 0 ELSE Head(txs).hash.lead + SumLead(Tail(txs))

\* the numeric mix of a block string: the nonce steps the two leading digits
\* through a cycle, so that the search of mine_block ends within MixCycle steps
MixCycle == 24

BlockMix(block) ==
    LET high == (5 + block.index * 7 + block.timestamp * 3
                   + block.previous_hash.lead + SumLead(block.transactions))
                % MixCycle
        low == (block.index + Len(block.transactions)) % 16
    IN  ((high + 255 * block.nonce) % 256) * 16 + low

Block_calculate_hash(block) ==
    LET transactions_string == [i \in 1..Len(block.transactions) |->
                                   block.transactions[i].hash]
    IN  Sha256(<<block.index, block.timestamp, block.previous_hash,
                 block.nonce, transactions_string>>,
               BlockMix(block))

Block(index, transactions, previous_hash, diff, now) ==
    LET b == [index |-> index, timestamp |-> now, transactions |-> transactions,
              previous_hash |-> previous_hash, nonce |-> 0, difficulty |-> diff]
    IN  [index |-> index, timestamp |-> now, transactions |-> transactions,
         previous_hash |-> previous_hash, nonce |-> 0, difficulty |-> diff,
         hash |-> Block_calculate_hash(b)]

\* Mutant: the search stops after its first step
Block_mine_block_one_step(block) ==
    IF HexPrefix(block.hash, block.difficulty) # Zeros(block.difficulty)
    THEN LET b1 == [block EXCEPT !.nonce = @ + 1]
         IN  [b1 EXCEPT !.hash = Block_calculate_hash(b1)]
    ELSE block

RECURSIVE Block_mine_block(_)
Block_mine_block(block) ==
    IF HexPrefix(block.hash, block.difficulty) # Zeros(block.difficulty)
    THEN LET b1 == [block EXCEPT !.nonce = @ + 1]
         IN  Block_mine_block([b1 EXCEPT !.hash = Block_calculate_hash(b1)])
    ELSE block

-----------------------------------------------------------------------------
(* Blockchain *)

\* the previous hash "0" of the genesis block
ZeroHash == [of |-> <<"0">>, lead |-> 0]

create_genesis_block(now) ==
    LET genesis_transaction == Transaction("0", "system", 0, "genesis", EmptyDict, now)
    IN  Block_mine_block(Block(0, <<genesis_transaction>>, ZeroHash, 2, now))

get_latest_block(ch) == ch[Len(ch)]

\* Mutant: the sender of a download or transfer is debited the fee as well
RECURSIVE BalanceOfTransactions_debiting_fee(_, _, _)
BalanceOfTransactions_debiting_fee(txs, address, balance) ==
    IF txs = <<>> THEN balance
    ELSE LET transaction == Head(txs)
             fee == IF transaction.transaction_type
                          \in {"resource_download", "transfer"}
                    THEN transaction.amount \div 1000 ELSE 0
             b1 == IF transaction.receiver = address
                   THEN balance + transaction.amount ELSE balance
             b2 == IF transaction.sender = address /\ transaction.sender # "0"
                   THEN b1 - transaction.amount - fee ELSE b1
         IN  BalanceOfTransactions_debiting_fee(Tail(txs), address, b2)

RECURSIVE BalanceOfTransactions(_, _, _)
BalanceOfTransactions(txs, address, balance) ==
    IF txs = <<>> THEN balance
    ELSE LET transaction == Head(txs)
             b1 == IF transaction.receiver = address
                   THEN balance + transaction.amount ELSE balance
             b2 == IF transaction.sender = address /\ transaction.sender # "0"
                   THEN b1 - transaction.amount ELSE b1
         IN  BalanceOfTransactions(Tail(txs), address, b2)

RECURSIVE BalanceOfBlocks(_, _, _)
BalanceOfBlocks(blocks, address, balance) ==
    IF blocks = <<>> THEN balance
    ELSE BalanceOfBlocks(Tail(blocks), address,
             BalanceOfTransactions(Head(blocks).transactions, address, balance))

\* Mutant: the replay goes on into the pending pool
get_balance_with_pending(ch, address) ==
    BalanceOfTransactions(pending_transactions, address,
                          BalanceOfBlocks(ch, address, 0))

get_balance(ch, address) == BalanceOfBlocks(ch, address, 0)

RECURSIVE Pow2(_)
Pow2(n) == IF n = 0 THEN 1 ELSE 2 * Pow2(n - 1)

\* Mutant: the halvings are counted from the index of the tip
calculate_current_reward_by_tip_index(ch) ==
    LET halving_count == (Len(ch) - 1) \div reward_halving_interval
    IN  mining_reward \div Pow2(halving_count)

\* (mining_reward / 2 ** halving_count is a whole number of units while
\* halving_count <= 5)
\* Mutant: twice the reward
calculate_current_reward_doubled(ch) ==
    LET halving_count == Len(ch) \div reward_halving_interval
    IN  (2 * mining_reward) \div Pow2(halving_count)

calculate_current_reward(ch) ==
    LET halving_count == Len(ch) \div reward_halving_interval
    IN  mining_reward \div Pow2(halving_count)

\* Mutant: the balance check also counts what the sender already has pending
add_transaction_counting_pending(pending, ch, transaction) ==
    IF transaction.sender = "0"
    THEN [ok |-> TRUE, pending |-> Append(pending, transaction)]
    ELSE LET sender_balance ==
                 BalanceOfTransactions(pending, transaction.sender,
                                       get_balance(ch, transaction.sender))
         IN  IF sender_balance >= transaction.amount
             THEN [ok |-> TRUE, pending |-> Append(pending, transaction)]
             ELSE [ok |-> FALSE, pending |-> pending]

\* Mutant: the transaction is appended before the balance is checked
add_transaction_append_first(pending, ch, transaction) ==
    IF transaction.sender = "0"
    THEN [ok |-> TRUE, pending |-> Append(pending, transaction)]
    ELSE [ok |-> get_balance(ch, transaction.sender) >= transaction.amount,
          pending |-> Append(pending, transaction)]

\* returns the value returned and the pending pool after the call
add_transaction(pending, ch, transaction) ==
    IF transaction.sender = "0"
    THEN [ok |-> TRUE, pending |-> Append(pending, transaction)]
    ELSE LET sender_balance == get_balance(ch, transaction.sender)
         IN  IF sender_balance >= transaction.amount
             THEN [ok |-> TRUE, pending |-> Append(pending, transaction)]
             ELSE [ok |-> FALSE, pending |-> pending]

\* Mutant: every pending transaction pays a fee, whatever its kind
RECURSIVE TotalFees_any_kind(_)
TotalFees_any_kind(pending) ==
    IF pending = <<>> THEN 0
    ELSE Head(pending).amount \div 1000 + TotalFees_any_kind(Tail(pending))

RECURSIVE TotalFees(_)
TotalFees(pending) ==
    IF pending = <<>> THEN 0
    ELSE (IF Head(pending).transaction_type \in {"resource_download", "transfer"}
          THEN Head(pending).amount \div 1000 ELSE 0) + TotalFees(Tail(pending))
\* (tx.amount * 0.001: the amounts of the model are multiples of 1000 units)

\* Mutants: the new block is linked to the genesis block, not to the tip
\* (LinkedTo: the hash the new block names as its previous hash)
MinePendingLinkedTo(pending, ch, mining_reward_address, now, previous_hash) ==
    IF pending = <<>>
    THEN [ok |-> FALSE, chain |-> ch, pending |-> pending]
    ELSE LET reward_transaction ==
                 Transaction("0", mining_reward_address,
                             calculate_current_reward(ch) + TotalFees(pending),
                             "mining_reward", EmptyDict, now)
             block == Block_mine_block(
                          Block(Len(ch), Append(pending, reward_transaction),
                                previous_hash, difficulty, now))
         IN  [ok |-> TRUE, chain |-> Append(ch, block), pending |-> <<>>]

mine_pending_linked_to_genesis(pending, ch, mining_reward_address, now) ==
    MinePendingLinkedTo(pending, ch, mining_reward_address, now, ch[1].hash)

\* Mutant: the new block names the previous hash of its predecessor
mine_pending_linked_to_grandparent(pending, ch, mining_reward_address, now) ==
    MinePendingLinkedTo(pending, ch, mining_reward_address, now,
                        get_latest_block(ch).previous_hash)

\* Mutant: the reward transaction is put first, before the pool's transactions
mine_pending_reward_first(pending, ch, mining_reward_address, now) ==
    IF pending = <<>>
    THEN [ok |-> FALSE, chain |-> ch, pending |-> pending]
    ELSE LET reward_transaction ==
                 Transaction("0", mining_reward_address,
                             calculate_current_reward(ch) + TotalFees(pending),
                             "mining_reward", EmptyDict, now)
             block == Block_mine_block(
                          Block(Len(ch), <<reward_transaction>> \o pending,
                                get_latest_block(ch).hash, difficulty, now))
         IN  [ok |-> TRUE, chain |-> Append(ch, block), pending |-> <<>>]

\* Mutant: an empty pool is mined too, into a block holding the reward alone
mine_pending_even_empty(pending, ch, mining_reward_address, now) ==
    LET reward_transaction ==
            Transaction("0", mining_reward_address,
                        calculate_current_reward(ch) + TotalFees(pending),
                        "mining_reward", EmptyDict, now)
        block == Block_mine_block(
                     Block(Len(ch), Append(pending, reward_transaction),
                           get_latest_block(ch).hash, difficulty, now))
    IN  [ok |-> TRUE, chain |-> Append(ch, block), pending |-> <<>>]

\* Mutant: the pool is not cleared after the block is appended
mine_pending_keeps_pool(pending, ch, mining_reward_address, now) ==
    [ok |-> pending # <<>>,
     chain |-> MinePendingLinkedTo(pending, ch, mining_reward_address, now,
                                   get_latest_block(ch).hash).chain,
     pending |-> pending]

\* returns whether a block was returned, and the chain and pool after the call
mine_pending_transactions(pending, ch, mining_reward_address, now) ==
    IF pending = <<>>
    THEN [ok |-> FALSE, chain |-> ch, pending |-> pending]
    ELSE LET total_fees == TotalFees(pending)
             current_reward == calculate_current_reward(ch) + total_fees
             reward_transaction ==
                 Transaction("0", mining_reward_address, current_reward,
                             "mining_reward", EmptyDict, now)
             transactions_to_mine == Append(pending, reward_transaction)
             block == Block_mine_block(
                          Block(Len(ch), transactions_to_mine,
                                get_latest_block(ch).hash, difficulty, now))
         IN  [ok |-> TRUE, chain |-> Append(ch, block), pending |-> <<>>]

is_chain_valid(ch) ==
    \A i \in 2..Len(ch) :
        LET current_block == ch[i]
            previous_block == ch[i - 1]
        IN  /\ current_block.hash = Block_calculate_hash(current_block)
            /\ current_block.previous_hash = previous_block.hash
            /\ HexPrefix(current_block.hash, current_block.difficulty)
                   = Zeros(current_block.difficulty)

-----------------------------------------------------------------------------
(* SharedFile and ResourceManager *)

FileFields == {"id", "name", "size_gb", "uploader", "seeds", "peers",
               "description", "owner_address", "file_hash", "category",
               "upload_time", "is_active", "storage_path"}

\* the dataclass fields without a default, except id, which add_file passes
RequiredFields == {"name", "size_gb", "uploader", "seeds", "peers",
                   "description", "owner_address"}

FieldDefault(f, now) ==
    CASE f = "file_hash" -> ""
      [] f = "category" -> "general"
      [] f = "upload_time" -> now
      [] f = "is_active" -> TRUE
      [] f = "storage_path" -> ""

\* SharedFile(id=file_id, **file_data) raises TypeError unless this holds
ValidFileData(file_data) ==
    /\ RequiredFields \subseteq DOMAIN file_data
    /\ DOMAIN file_data \subseteq FileFields \ {"id"}

SharedFile(id, file_data, now) ==
    [f \in FileFields |->
        IF f = "id" THEN id
        ELSE IF f \in DOMAIN file_data THEN file_data[f]
        ELSE FieldDefault(f, now)]

SampleFile(id, name, size_gb, uploader, seeds, peers, category, now) ==
    SharedFile(id, [name |-> name, size_gb |-> size_gb, uploader |-> uploader,
                    seeds |-> seeds, peers |-> peers, description |-> "sample",
                    owner_address |-> "", category |-> category], now)

\* ResourceManager.__init__ with _initialize_sample_files
ResourceManager(now) ==
    [files |-> (1 :> SampleFile(1, "The Art of Seeding.pdf", 124, "seedMaster",
                                42, 5, "document", now)
             @@ 2 :> SampleFile(2, "Nexus OST.mp3", 63, "djHyper",
                                18, 12, "audio", now)
             @@ 3 :> SampleFile(3, "ClientSetup.zip", 481, "builderBee",
                                33, 4, "software", now)),
     next_file_id |-> 4]

\* Mutant: a file that cannot be built is stored with blank fields
add_file_keeps_blank(rm, file_data, now) ==
    LET file_id == rm.next_file_id
        rm1 == [rm EXCEPT !.next_file_id = @ + 1]
        blank == [f \in FileFields |->
                     IF f = "id" THEN file_id
                     ELSE IF f \in DOMAIN file_data THEN file_data[f] ELSE ""]
    IN  IF ValidFileData(file_data)
        THEN [ok |-> TRUE, file_id |-> file_id,
              rm |-> [rm1 EXCEPT !.files =
                         @ @@ (file_id :> SharedFile(file_id, file_data, now))]]
        ELSE [ok |-> FALSE, file_id |-> file_id,
              rm |-> [rm1 EXCEPT !.files = @ @@ (file_id :> blank)]]

\* returns the manager after the call and the file added (ok: not None)
add_file(rm, file_data, now) ==
    LET file_id == rm.next_file_id
        rm1 == [rm EXCEPT !.next_file_id = @ + 1]
    IN  IF ValidFileData(file_data)
        THEN LET file == SharedFile(file_id, file_data, now)
             IN  [ok |-> TRUE, file_id |-> file_id,
                  rm |-> [rm1 EXCEPT !.files = @ @@ (file_id :> file)]]
        ELSE [ok |-> FALSE, file_id |-> file_id, rm |-> rm1]

\* Mutant: the id of the record removed is given out again when it was the
\* last one given out
remove_file_releasing_id(rm, file_id, owner_address) ==
    IF file_id \notin DOMAIN rm.files
    THEN [ok |-> FALSE, rm |-> rm]
    ELSE IF owner_address # "" /\ rm.files[file_id].owner_address # owner_address
    THEN [ok |-> FALSE, rm |-> rm]
    ELSE [ok |-> TRUE,
          rm |-> [files |-> [i \in DOMAIN rm.files \ {file_id} |-> rm.files[i]],
                  next_file_id |-> IF file_id = rm.next_file_id - 1
                                   THEN file_id ELSE rm.next_file_id]]

\* owner_address is a string; "" is the falsy value (None behaves alike)
remove_file(rm, file_id, owner_address) ==
    IF file_id \notin DOMAIN rm.files
    THEN [ok |-> FALSE, rm |-> rm]
    ELSE IF owner_address # "" /\ rm.files[file_id].owner_address # owner_address
    THEN [ok |-> FALSE, rm |-> rm]
    ELSE [ok |-> TRUE,
          rm |-> [rm EXCEPT !.files =
                     [i \in DOMAIN rm.files \ {file_id} |-> rm.files[i]]]]

\* Mutant: a record switched off is deleted
update_file_deleting_inactive(rm, file_id, update_data, owner_address) ==
    IF file_id \notin DOMAIN rm.files
    THEN [ok |-> FALSE, rm |-> rm]
    ELSE IF owner_address # "" /\ rm.files[file_id].owner_address # owner_address
    THEN [ok |-> FALSE, rm |-> rm]
    ELSE LET file == rm.files[file_id]
             updated == [f \in FileFields |->
                            IF f \in DOMAIN update_data
                               /\ f \notin {"id", "owner_address"}
                            THEN update_data[f] ELSE file[f]]
         IN  [ok |-> TRUE,
              rm |-> IF updated.is_active
                     THEN [rm EXCEPT !.files[file_id] = updated]
                     ELSE [rm EXCEPT !.files =
                              [i \in DOMAIN rm.files \ {file_id} |-> rm.files[i]]]]

\* Mutant: every key of update_data that is a field is assigned
update_file_any_key(rm, file_id, update_data, owner_address) ==
    IF file_id \notin DOMAIN rm.files
    THEN [ok |-> FALSE, rm |-> rm]
    ELSE IF owner_address # "" /\ rm.files[file_id].owner_address # owner_address
    THEN [ok |-> FALSE, rm |-> rm]
    ELSE [ok |-> TRUE,
          rm |-> [rm EXCEPT !.files[file_id] =
                     [f \in FileFields |->
                         IF f \in DOMAIN update_data
                         THEN update_data[f] ELSE rm.files[file_id][f]]]]

\* hasattr(file, key) holds for the keys that are fields of the dataclass
update_file(rm, file_id, update_data, owner_address) ==
    IF file_id \notin DOMAIN rm.files
    THEN [ok |-> FALSE, rm |-> rm]
    ELSE IF owner_address # "" /\ rm.files[file_id].owner_address # owner_address
    THEN [ok |-> FALSE, rm |-> rm]
    ELSE LET file == rm.files[file_id]
         IN  [ok |-> TRUE,
              rm |-> [rm EXCEPT !.files[file_id] =
                         [f \in FileFields |->
                             IF f \in DOMAIN update_data
                                /\ f \notin {"id", "owner_address"}
                             THEN update_data[f] ELSE file[f]]]]

\* Mutant: the counts are not clamped
update_seeds_peers_unclamped(rm, file_id, seeds_delta, peers_delta) ==
    IF file_id \notin DOMAIN rm.files
    THEN [ok |-> FALSE, rm |-> rm]
    ELSE [ok |-> TRUE,
          rm |-> [rm EXCEPT !.files[file_id].seeds = @ + seeds_delta,
                            !.files[file_id].peers = @ + peers_delta]]

update_seeds_peers(rm, file_id, seeds_delta, peers_delta) ==
    IF file_id \notin DOMAIN rm.files
    THEN [ok |-> FALSE, rm |-> rm]
    ELSE LET file == rm.files[file_id]
             s == IF file.seeds + seeds_delta > 0
                  THEN file.seeds + seeds_delta ELSE 0
             p == IF file.peers + peers_delta > 0
                  THEN file.peers + peers_delta ELSE 0
         IN  [ok |-> TRUE,
              rm |-> [rm EXCEPT !.files[file_id] =
                         [f \in FileFields |->
                             IF f = "seeds" THEN s
                             ELSE IF f = "peers" THEN p ELSE file[f]]]]

\* self.files.get(file_id): the record, or None (here the empty tuple)
get_file(rm, file_id) ==
    IF file_id \in DOMAIN rm.files THEN rm.files[file_id] ELSE <<>>

\* the records of self.files.values() with an id in ids, in the order of the
\* dictionary, which is the order of insertion and so of the ids
RECURSIVE FilesOf(_, _)
FilesOf(rm, ids) ==
    IF ids = {} THEN <<>>
    ELSE LET id == CHOOSE i \in ids : \A j \in ids : i <= j
         IN  <<rm.files[id]>> \o FilesOf(rm, ids \ {id})

get_active_files(rm) ==
    FilesOf(rm, {id \in DOMAIN rm.files : rm.files[id].is_active})

\* search_files without a keyword; category "" is the falsy value, and an
\* optional number is the empty set (None) or the set of the one value
search_files(rm, category, min_size, max_size, min_seeds) ==
    FilesOf(rm, {id \in DOMAIN rm.files :
                    LET file == rm.files[id]
                    IN  /\ file.is_active
                        /\ ~(category # "" /\ file.category # category)
                        /\ \A m \in min_size : ~(file.size_gb < m)
                        /\ \A m \in max_size : ~(file.size_gb > m)
                        /\ \A m \in min_seeds : ~(file.seeds < m)})

-----------------------------------------------------------------------------
(* User *)

\* Mutant: the user is created without the initial transaction
User_without_endowment(username, pending, ch, now) ==
    LET address == Address(username, now)
    IN  [user |-> [username |-> username, address |-> address,
                   resource_manager |-> ResourceManager(now),
                   initial_credit |-> initial_credit],
         pending |-> pending]

\* returns the user created and the pending pool after the call
User(username, pending, ch, now) ==
    LET address == Address(username, now)
        initial_transaction ==
            Transaction("0", address, initial_credit, "initial_credit",
                        EmptyDict, now)
        added == add_transaction(pending, ch, initial_transaction)
    IN  [user |-> [username |-> username, address |-> address,
                   resource_manager |-> ResourceManager(now),
                   initial_credit |-> initial_credit],
         pending |-> added.pending]

\* Mutant: 100 credits per GB
SizeCredit_rate_100(size_gb) == size_gb * 100

\* size_gb * 1000 credits, sizes being in 1/Scale GB and amounts in 1/Scale credit
SizeCredit(size_gb) == size_gb * 1000

\* Mutant: an owner_address the caller names is kept
declare_resources_keeping_owner(user, file_data, pending, ch, now) ==
    LET data == [f \in (DOMAIN file_data) \cup {"owner_address"} |->
                    IF f \in DOMAIN file_data THEN file_data[f] ELSE user.address]
        added == add_file(user.resource_manager, data, now)
    IN  IF ~added.ok
        THEN [ok |-> FALSE, user |-> [user EXCEPT !.resource_manager = added.rm],
              pending |-> pending]
        ELSE LET file == added.rm.files[added.file_id]
                 credit_earned == SizeCredit(file.size_gb)
                 resource_transaction ==
                     Transaction("0", user.address, credit_earned,
                                 "resource_declaration", file, now)
                 res == add_transaction(pending, ch, resource_transaction)
                 rm2 == IF res.ok THEN added.rm
                        ELSE remove_file(added.rm, added.file_id, user.address).rm
             IN  [ok |-> res.ok, user |-> [user EXCEPT !.resource_manager = rm2],
                  pending |-> res.pending]

\* returns the value returned, the user and the pending pool after the call
declare_resources(user, file_data, pending, ch, now) ==
    LET data == [f \in (DOMAIN file_data) \cup {"owner_address"} |->
                    IF f = "owner_address" THEN user.address ELSE file_data[f]]
        added == add_file(user.resource_manager, data, now)
    IN  IF ~added.ok
        THEN [ok |-> FALSE, user |-> [user EXCEPT !.resource_manager = added.rm],
              pending |-> pending]
        ELSE LET file == added.rm.files[added.file_id]
                 credit_earned == SizeCredit(file.size_gb)
                 resource_transaction ==
                     Transaction("0", user.address, credit_earned,
                                 "resource_declaration", file, now)
                 res == add_transaction(pending, ch, resource_transaction)
                 rm2 == IF res.ok THEN added.rm
                        ELSE remove_file(added.rm, added.file_id, user.address).rm
             IN  [ok |-> res.ok, user |-> [user EXCEPT !.resource_manager = rm2],
                  pending |-> res.pending]

\* Mutant: a file that is not active is downloaded like an active one
User_download_resource_ignoring_active(owner, file_id, downloader, pending, ch, now) ==
    LET rm == owner.resource_manager
        refused == [ok |-> FALSE, user |-> owner, pending |-> pending]
    IN  IF file_id \notin DOMAIN rm.files THEN refused
        ELSE LET file == rm.files[file_id]
             IN  IF file.owner_address = downloader.address THEN refused
                 ELSE LET download_cost == SizeCredit(file.size_gb)
                          miner_fee == download_cost \div 1000
                          total_cost == download_cost + miner_fee
                          downloader_balance == get_balance(ch, downloader.address)
                      IN  IF downloader_balance < total_cost THEN refused
                          ELSE LET download_transaction ==
                                       Transaction(downloader.address,
                                                   file.owner_address, download_cost,
                                                   "resource_download", file, now)
                                   res == add_transaction(pending, ch,
                                                          download_transaction)
                               IN  IF res.ok
                                   THEN [ok |-> TRUE,
                                         user |-> [owner EXCEPT !.resource_manager =
                                                      update_seeds_peers(rm, file_id, 1, 0).rm],
                                         pending |-> res.pending]
                                   ELSE refused

\* Mutant: the balance is compared with the cost, the fee left out
User_download_resource_cost_only(owner, file_id, downloader, pending, ch, now) ==
    LET rm == owner.resource_manager
        refused == [ok |-> FALSE, user |-> owner, pending |-> pending]
    IN  IF file_id \notin DOMAIN rm.files THEN refused
        ELSE LET file == rm.files[file_id]
             IN  IF ~file.is_active THEN refused
                 ELSE IF file.owner_address = downloader.address THEN refused
                 ELSE LET download_cost == SizeCredit(file.size_gb)
                          miner_fee == download_cost \div 1000
                          total_cost == download_cost + miner_fee
                          downloader_balance == get_balance(ch, downloader.address)
                      IN  IF downloader_balance < download_cost THEN refused
                          ELSE LET download_transaction ==
                                       Transaction(downloader.address,
                                                   file.owner_address, download_cost,
                                                   "resource_download", file, now)
                                   res == add_transaction(pending, ch,
                                                          download_transaction)
                               IN  IF res.ok
                                   THEN [ok |-> TRUE,
                                         user |-> [owner EXCEPT !.resource_manager =
                                                      update_seeds_peers(rm, file_id, 1, 0).rm],
                                         pending |-> res.pending]
                                   ELSE refused

\* Mutant: the transaction is for the cost and the fee
User_download_resource_charging_fee(owner, file_id, downloader, pending, ch, now) ==
    LET rm == owner.resource_manager
        refused == [ok |-> FALSE, user |-> owner, pending |-> pending]
    IN  IF file_id \notin DOMAIN rm.files THEN refused
        ELSE LET file == rm.files[file_id]
             IN  IF ~file.is_active THEN refused
                 ELSE IF file.owner_address = downloader.address THEN refused
                 ELSE LET download_cost == SizeCredit(file.size_gb)
                          miner_fee == download_cost \div 1000
                          total_cost == download_cost + miner_fee
                          downloader_balance == get_balance(ch, downloader.address)
                      IN  IF downloader_balance < total_cost THEN refused
                          ELSE LET download_transaction ==
                                       Transaction(downloader.address,
                                                   file.owner_address, total_cost,
                                                   "resource_download", file, now)
                                   res == add_transaction(pending, ch,
                                                          download_transaction)
                               IN  IF res.ok
                                   THEN [ok |-> TRUE,
                                         user |-> [owner EXCEPT !.resource_manager =
                                                      update_seeds_peers(rm, file_id, 1, 0).rm],
                                         pending |-> res.pending]
                                   ELSE refused

\* owner.download_resource(file_id, downloader): returns the value returned,
\* the owner and the pending pool after the call
User_download_resource(owner, file_id, downloader, pending, ch, now) ==
    LET rm == owner.resource_manager
        refused == [ok |-> FALSE, user |-> owner, pending |-> pending]
    IN  IF file_id \notin DOMAIN rm.files THEN refused
        ELSE LET file == rm.files[file_id]
             IN  IF ~file.is_active THEN refused
                 ELSE IF file.owner_address = downloader.address THEN refused
                 ELSE LET download_cost == SizeCredit(file.size_gb)
                          miner_fee == download_cost \div 1000
                          total_cost == download_cost + miner_fee
                          downloader_balance == get_balance(ch, downloader.address)
                      IN  IF downloader_balance < total_cost THEN refused
                          ELSE LET download_transaction ==
                                       Transaction(downloader.address,
                                                   file.owner_address, download_cost,
                                                   "resource_download", file, now)
                                   res == add_transaction(pending, ch,
                                                          download_transaction)
                               IN  IF res.ok
                                   THEN [ok |-> TRUE,
                                         user |-> [owner EXCEPT !.resource_manager =
                                                      update_seeds_peers(rm, file_id, 1, 0).rm],
                                         pending |-> res.pending]
                                   ELSE refused

-----------------------------------------------------------------------------
(* ResourceSharingSystem: the operations, one action each *)

\* The threads of the clients.  lock is the thread inside `with self.lock' of
\* the Blockchain, or NoThread; a thread is idle or inside a call, of which
\* it holds the argument (address or handle, transaction), the block or the
\* user it built, and, reading the
\* chain, the position it reads next (i), what it has summed up (balance)
\* and the chain length when it began (from).
Threads == {"t1", "t2"}

NoThread == "free"

NoBlock == <<>>

NoUser == <<>>

IdleThread ==
    [pc |-> "idle", address |-> "", transaction |-> EmptyDict,
     block |-> NoBlock, i |-> 0, balance |-> 0, from |-> 0, user |-> NoUser]

Registered == DOMAIN users

Addresses == {users[u].address : u \in Registered}

\* what the last call was and what it returned (ret: a true value, not False/None,
\* no exception); tx is the argument of a direct add_transaction call
Result(op, ret, tx) == [op |-> op, ret |-> ret, tx |-> tx]

Init ==
    /\ chain = <<create_genesis_block(0)>>
    /\ pending_transactions = <<>>
    /\ reward_halving_interval = 210000
    /\ users = <<>>
    /\ clock = 0
    /\ last = Result("init", TRUE, EmptyDict)
    /\ lock = NoThread
    /\ threads = [t \in Threads |-> IdleThread]

Tick ==
    /\ clock < MaxClock
    /\ clock' = clock + 1
    /\ last' = Result("tick", TRUE, EmptyDict)
    /\ UNCHANGED <<chain, pending_transactions, users, reward_halving_interval, lock, threads>>

\* Mutant: a registered handle is registered again, with a new User object
register_user_again(username) ==
    /\ Len(pending_transactions) < MaxPending
    /\ LET made == User(username, pending_transactions, chain, clock)
       IN  /\ users' = [u \in Registered \cup {username} |->
                           IF u = username THEN made.user ELSE users[u]]
           /\ pending_transactions' = made.pending
    /\ last' = Result("register_user", TRUE, EmptyDict)
    /\ UNCHANGED <<chain, clock, reward_halving_interval, lock, threads>>

register_user(username) ==
    IF username \in Registered
    THEN /\ last' = Result("register_user", FALSE, EmptyDict)
         /\ UNCHANGED <<chain, pending_transactions, users, clock,
                        reward_halving_interval, lock, threads>>
    ELSE /\ Len(pending_transactions) < MaxPending
         /\ LET made == User(username, pending_transactions, chain, clock)
            IN  /\ users' = users @@ (username :> made.user)
                /\ pending_transactions' = made.pending
         /\ last' = Result("register_user", TRUE, EmptyDict)
         /\ UNCHANGED <<chain, clock,
                        reward_halving_interval, lock, threads>>

\* The calls clients make.  A published dictionary is well formed (a 0.025 GB
\* file) or lacks keys SharedFile requires; a download asks for the first
\* published file (id 4), a sample file (id 1) or an id no registry holds.
FileData(username, size_gb) ==
    [name |-> "doc", size_gb |-> size_gb, uploader |-> username, seeds |-> 0,
     peers |-> 0, description |-> "published"]

PublishRequests ==
    {<<"Alice", FileData("Alice", 250)>>, <<"Alice", [name |-> "doc"]>>}

DownloadRequests ==
    {<<"Bob", "Alice", 4>>, <<"Bob", "Alice", 1>>, <<"Alice", "Alice", 4>>,
     <<"Bob", "Alice", 5>>}

declare_user_resources(username, file_data) ==
    IF username \notin Registered
    THEN /\ last' = Result("declare_user_resources", FALSE, EmptyDict)
         /\ UNCHANGED <<chain, pending_transactions, users, clock,
                        reward_halving_interval, lock, threads>>
    ELSE /\ Len(pending_transactions) < MaxPending
         /\ users[username].resource_manager.next_file_id < 4 + MaxPublished
         /\ LET res == declare_resources(users[username], file_data,
                                         pending_transactions, chain, clock)
            IN  /\ users' = [users EXCEPT ![username] = res.user]
                /\ pending_transactions' = res.pending
                /\ last' = Result("declare_user_resources", res.ok, EmptyDict)
         /\ UNCHANGED <<chain, clock,
                        reward_halving_interval, lock, threads>>

download_resource(downloader_username, file_owner_username, file_id) ==
    IF downloader_username \notin Registered \/ file_owner_username \notin Registered
    THEN /\ last' = Result("download_resource", FALSE, EmptyDict)
         /\ UNCHANGED <<chain, pending_transactions, users, clock,
                        reward_halving_interval, lock, threads>>
    ELSE /\ Len(pending_transactions) < MaxPending
         /\ LET res == User_download_resource(users[file_owner_username], file_id,
                                              users[downloader_username],
                                              pending_transactions, chain, clock)
            IN  /\ users' = [users EXCEPT ![file_owner_username] = res.user]
                /\ pending_transactions' = res.pending
                /\ last' = Result("download_resource", res.ok, EmptyDict)
         /\ UNCHANGED <<chain, clock,
                        reward_halving_interval, lock, threads>>

\* Mutant: for a handle that is not registered the pool is mined all the same,
\* the handle taken as the address
mine_block_unchecked(miner_username) ==
    /\ Len(chain) < MaxChain
    /\ LET address == IF miner_username \in Registered
                      THEN users[miner_username].address ELSE miner_username
           res == mine_pending_transactions(pending_transactions, chain,
                                            address, clock)
       IN  /\ chain' = res.chain
           /\ pending_transactions' = res.pending
           /\ last' = Result("mine_block", res.ok, EmptyDict)
    /\ UNCHANGED <<users, clock, reward_halving_interval, lock, threads>>

mine_block(miner_username) ==
    IF miner_username \notin Registered
    THEN /\ last' = Result("mine_block", FALSE, EmptyDict)
         /\ UNCHANGED <<chain, pending_transactions, users, clock,
                        reward_halving_interval, lock, threads>>
    ELSE /\ Len(chain) < MaxChain
         /\ LET res == mine_pending_transactions(pending_transactions, chain,
                                                 users[miner_username].address, clock)
            IN  /\ chain' = res.chain
                /\ pending_transactions' = res.pending
                /\ last' = Result("mine_block", res.ok, EmptyDict)
         /\ UNCHANGED <<users, clock,
                        reward_halving_interval, lock, threads>>

\* Blockchain.add_transaction called by a client of the chain with a
\* transaction the client constructed: a transfer of 6000 credits from Bob to
\* Alice, or a transaction naming the system sender "0"
DirectTransactions ==
    {Transaction(users[s].address, users[r].address, Credits(6000), "transfer",
                 EmptyDict, clock) :
        s \in {"Bob"} \cap Registered, r \in {"Alice"} \cap Registered}
    \cup {Transaction("0", users[r].address, Credits(1), "mining_reward",
                      EmptyDict, clock) : r \in {"Bob"} \cap Registered}

AddTransactionCall(transaction) ==
    /\ Len(pending_transactions) < MaxPending
    /\ LET res == add_transaction(pending_transactions, chain, transaction)
       IN  /\ pending_transactions' = res.pending
           /\ last' = Result("add_transaction", res.ok, transaction)
    /\ UNCHANGED <<chain, users, clock,
                        reward_halving_interval, lock, threads>>

\* The methods of a user's ResourceManager called by a client that holds the
\* user object: requests name the registry by its user, the file by its id
\* and the requester by the owner_address passed ("": None, or no argument).
\* last.tx holds the arguments of the call.
RegistryArgs(username, file_id, update_data, owner_address) ==
    [username |-> username, file_id |-> file_id, update_data |-> update_data,
     owner_address |-> owner_address]

Requesters == Addresses \cup {""}

RegistryFileIds == {4, 5}

UpdateDatas ==
    {[id |-> 9, owner_address |-> "mallory", name |-> "renamed", bogus |-> 1],
     [is_active |-> FALSE]}

RemoveFileCall(username, file_id, owner_address) ==
    /\ username \in Registered
    /\ LET res == remove_file(users[username].resource_manager, file_id,
                              owner_address)
       IN  /\ users' = [users EXCEPT ![username].resource_manager = res.rm]
           /\ last' = Result("remove_file", res.ok,
                             RegistryArgs(username, file_id, EmptyDict,
                                          owner_address))
    /\ UNCHANGED <<chain, pending_transactions, clock, reward_halving_interval, lock, threads>>

UpdateFileCall(username, file_id, update_data, owner_address) ==
    /\ username \in Registered
    /\ LET res == update_file(users[username].resource_manager, file_id,
                              update_data, owner_address)
       IN  /\ users' = [users EXCEPT ![username].resource_manager = res.rm]
           /\ last' = Result("update_file", res.ok,
                             RegistryArgs(username, file_id, update_data,
                                          owner_address))
    /\ UNCHANGED <<chain, pending_transactions, clock, reward_halving_interval, lock, threads>>

UpdateSeedsPeersCall(username, file_id, seeds_delta, peers_delta) ==
    /\ username \in Registered
    /\ LET res == update_seeds_peers(users[username].resource_manager, file_id,
                                     seeds_delta, peers_delta)
       IN  /\ users' = [users EXCEPT ![username].resource_manager = res.rm]
           /\ last' = Result("update_seeds_peers", res.ok,
                             RegistryArgs(username, file_id, EmptyDict, ""))
    /\ UNCHANGED <<chain, pending_transactions, clock, reward_halving_interval, lock, threads>>

Next ==
    \/ Tick
    \/ \E username \in Handles : register_user(username)
    \/ \E r \in PublishRequests : declare_user_resources(r[1], r[2])
    \/ \E r \in DownloadRequests : download_resource(r[1], r[2], r[3])
    \/ \E username \in Handles : mine_block(username)
    \/ \E transaction \in DirectTransactions : AddTransactionCall(transaction)

Spec == Init /\ [][Next]_vars

-----------------------------------------------------------------------------
(* A chain whose halving interval is short.  reward_halving_interval is an  *)
(* attribute of the Blockchain object, 210000 after construction; here it   *)
(* has been assigned one of HalvingIntervals before the first call, so that *)
(* chains of a few blocks reach and pass a halving.                         *)

HalvingIntervals == {1, 2, 3, 210000}

InitHalving ==
    /\ chain = <<create_genesis_block(0)>>
    /\ pending_transactions = <<>>
    /\ reward_halving_interval \in HalvingIntervals
    /\ users = <<>>
    /\ clock = 0
    /\ last = Result("init", TRUE, EmptyDict)
    /\ lock = NoThread
    /\ threads = [t \in Threads |-> IdleThread]

NextHalving ==
    \/ Tick
    \/ \E username \in Handles : register_user(username)
    \/ \E username \in Handles : mine_block(username)
    \/ \E transaction \in DirectTransactions : AddTransactionCall(transaction)

RewardSpec == InitHalving /\ [][NextHalving]_vars

-----------------------------------------------------------------------------
(* The system with clients that also call the registries of its users *)

NextRegistry ==
    \/ \E username \in Handles : register_user(username)
    \/ \E r \in PublishRequests : declare_user_resources(r[1], r[2])
    \/ download_resource("Bob", "Alice", 4)
    \/ mine_block("Bob")
    \/ \E file_id \in RegistryFileIds, owner_address \in Requesters :
          RemoveFileCall("Alice", file_id, owner_address)
    \/ \E file_id \in RegistryFileIds, update_data \in UpdateDatas,
          owner_address \in Requesters :
          UpdateFileCall("Alice", file_id, update_data, owner_address)
    \/ \E file_id \in RegistryFileIds :
          UpdateSeedsPeersCall("Alice", file_id, -1, -1)

RegistrySpec == Init /\ [][NextRegistry]_vars

-----------------------------------------------------------------------------
(* The system with clients that publish a small (0.025 GB) or a large       *)
(* (10 GB) file, download published and sample files, switch the published  *)
(* file off and on, and have the pool mined for an identity "M" that is no  *)
(* user's, by calling Blockchain.mine_pending_transactions.                 *)

DownloadPublishRequests ==
    {<<"Alice", FileData("Alice", 250)>>, <<"Alice", FileData("Alice", 100000)>>}

SelfDownloadRequests == {<<"Alice", "Alice", 4>>, <<"Alice", "Alice", 1>>}

AllDownloadRequests == DownloadRequests \cup SelfDownloadRequests

MinePendingCall(mining_reward_address) ==
    /\ Len(chain) < MaxChain
    /\ LET res == mine_pending_transactions(pending_transactions, chain,
                                            mining_reward_address, clock)
       IN  /\ chain' = res.chain
           /\ pending_transactions' = res.pending
           /\ last' = Result("mine_pending_transactions", res.ok, EmptyDict)
    /\ UNCHANGED <<users, clock, reward_halving_interval, lock, threads>>

NextDownload ==
    \/ \E username \in Handles : register_user(username)
    \/ \E r \in DownloadPublishRequests : declare_user_resources(r[1], r[2])
    \/ \E r \in AllDownloadRequests : download_resource(r[1], r[2], r[3])
    \/ MinePendingCall("M")
    \/ \E is_active \in BOOLEAN :
          \E owner_address \in {users[u].address : u \in {"Alice"} \cap Registered} :
             UpdateFileCall("Alice", 4, [is_active |-> is_active], owner_address)

DownloadSpec == Init /\ [][NextDownload]_vars

-----------------------------------------------------------------------------
(* Threads that call the methods of one Blockchain concurrently.  A step is *)
(* what a thread does between two points at which another thread can run   *)
(* and see or change the chain or the pool: add_transaction and             *)
(* mine_pending_transactions run inside `with self.lock'; get_balance and   *)
(* is_chain_valid take no lock and read the chain block by block.           *)

ThreadTransactions ==
    {Transaction("0", "A", Credits(100), "initial_credit", EmptyDict, clock),
     Transaction("A", "B", Credits(60), "transfer", EmptyDict, clock)}

ReadAddresses == {"A", "M"}

Idle(t) == threads[t].pc = "idle"

\* Mutant: add_transaction starts its body whoever holds the lock
add_transaction_acquire_unlocked(t, transaction) ==
    /\ Idle(t)
    /\ Len(pending_transactions) < MaxPending
    /\ threads' = [threads EXCEPT ![t] =
                      [IdleThread EXCEPT !.pc = "add_locked",
                                         !.transaction = transaction]]
    /\ UNCHANGED <<chain, pending_transactions, reward_halving_interval, users,
                   clock, last, lock>>

\* add_transaction: `with self.lock' entered
add_transaction_acquire(t, transaction) ==
    /\ Idle(t) /\ lock = NoThread
    /\ Len(pending_transactions) < MaxPending
    /\ lock' = t
    /\ threads' = [threads EXCEPT ![t] =
                      [IdleThread EXCEPT !.pc = "add_locked",
                                         !.transaction = transaction]]
    /\ UNCHANGED <<chain, pending_transactions, reward_halving_interval, users,
                   clock, last>>

\* Mutant: the lock is kept when the transaction is refused
add_transaction_return_locked_on_refusal(t) ==
    /\ threads[t].pc = "add_locked"
    /\ LET res == add_transaction(pending_transactions, chain,
                                  threads[t].transaction)
       IN  /\ pending_transactions' = res.pending
           /\ last' = Result("add_transaction", res.ok, threads[t].transaction)
           /\ lock' = IF res.ok THEN NoThread ELSE lock
    /\ threads' = [threads EXCEPT ![t] = IdleThread]
    /\ UNCHANGED <<chain, reward_halving_interval, users, clock>>

\* add_transaction: the body, and the lock released on return
add_transaction_return(t) ==
    /\ threads[t].pc = "add_locked"
    /\ LET res == add_transaction(pending_transactions, chain,
                                  threads[t].transaction)
       IN  /\ pending_transactions' = res.pending
           /\ last' = Result("add_transaction", res.ok, threads[t].transaction)
    /\ lock' = NoThread
    /\ threads' = [threads EXCEPT ![t] = IdleThread]
    /\ UNCHANGED <<chain, reward_halving_interval, users, clock>>

\* mine_pending_transactions: `with self.lock' entered
mine_pending_acquire(t, mining_reward_address) ==
    /\ Idle(t) /\ lock = NoThread
    /\ Len(chain) < MaxChain
    /\ lock' = t
    /\ threads' = [threads EXCEPT ![t] =
                      [IdleThread EXCEPT !.pc = "mine_locked",
                                         !.address = mining_reward_address]]
    /\ UNCHANGED <<chain, pending_transactions, reward_halving_interval, users,
                   clock, last>>

\* Mutant: the block as constructed, before block.mine_block()
MinedBlock_as_constructed(pending, ch, mining_reward_address, now) ==
    LET block == get_latest_block(
                     mine_pending_transactions(pending, ch, mining_reward_address,
                                               now).chain)
        b0 == [block EXCEPT !.nonce = 0]
    IN  [b0 EXCEPT !.hash = Block_calculate_hash(b0)]

\* the block of mine_pending_transactions after block.mine_block()
MinedBlock(pending, ch, mining_reward_address, now) ==
    get_latest_block(
        mine_pending_transactions(pending, ch, mining_reward_address, now).chain)

\* mine_pending_transactions: None returned for an empty pool; else the block
\* is built and mined, an object no other thread has
mine_pending_build(t) ==
    /\ threads[t].pc = "mine_locked"
    /\ IF pending_transactions = <<>>
       THEN /\ lock' = NoThread
            /\ threads' = [threads EXCEPT ![t] = IdleThread]
            /\ last' = Result("mine_pending_transactions", FALSE, EmptyDict)
       ELSE /\ threads' = [threads EXCEPT ![t].pc = "mine_mined",
                                         ![t].block =
                               MinedBlock(pending_transactions, chain,
                                          threads[t].address, clock)]
            /\ UNCHANGED <<lock, last>>
    /\ UNCHANGED <<chain, pending_transactions, reward_halving_interval, users,
                   clock>>

\* self.chain.append(block)
mine_pending_append(t) ==
    /\ threads[t].pc = "mine_mined"
    /\ chain' = Append(chain, threads[t].block)
    /\ threads' = [threads EXCEPT ![t].pc = "mine_appended"]
    /\ UNCHANGED <<pending_transactions, reward_halving_interval, users, clock,
                   last, lock>>

\* self.pending_transactions = [], and the lock released on return
mine_pending_return(t) ==
    /\ threads[t].pc = "mine_appended"
    /\ pending_transactions' = <<>>
    /\ lock' = NoThread
    /\ threads' = [threads EXCEPT ![t] = IdleThread]
    /\ last' = Result("mine_pending_transactions", TRUE, EmptyDict)
    /\ UNCHANGED <<chain, reward_halving_interval, users, clock>>

\* get_balance: no lock is taken
get_balance_begin(t, address) ==
    /\ Idle(t)
    /\ threads' = [threads EXCEPT ![t] =
                      [IdleThread EXCEPT !.pc = "balance_reading",
                                         !.address = address, !.i = 1,
                                         !.from = Len(chain)]]
    /\ UNCHANGED <<chain, pending_transactions, reward_halving_interval, users,
                   clock, last, lock>>

\* Mutant: the last transaction of the block is not read
ReadBlock_without_last(block, address, balance) ==
    BalanceOfTransactions(SubSeq(block.transactions, 1,
                                 Len(block.transactions) - 1), address, balance)

\* the inner loop of get_balance over one block
ReadBlock(block, address, balance) ==
    BalanceOfTransactions(block.transactions, address, balance)

\* `for block in self.chain': the next block, if the list has one now, else
\* the return; last.tx holds the address, the value returned and the chain
\* length when the call began
get_balance_step(t) ==
    /\ threads[t].pc = "balance_reading"
    /\ IF threads[t].i <= Len(chain)
       THEN /\ threads' = [threads EXCEPT
                              ![t].balance = ReadBlock(chain[threads[t].i],
                                                       threads[t].address, @),
                              ![t].i = @ + 1]
            /\ UNCHANGED last
       ELSE /\ threads' = [threads EXCEPT ![t] = IdleThread]
            /\ last' = Result("get_balance", TRUE,
                              [address |-> threads[t].address,
                               balance |-> threads[t].balance,
                               from |-> threads[t].from])
    /\ UNCHANGED <<chain, pending_transactions, reward_halving_interval, users,
                   clock, lock>>

\* is_chain_valid: no lock is taken; range(1, len(self.chain)) is fixed here
is_chain_valid_begin(t) ==
    /\ Idle(t)
    /\ threads' = [threads EXCEPT ![t] =
                      [IdleThread EXCEPT !.pc = "valid_reading", !.i = 2,
                                         !.from = Len(chain)]]
    /\ UNCHANGED <<chain, pending_transactions, reward_halving_interval, users,
                   clock, last, lock>>

\* one round of the loop of is_chain_valid, or the return
is_chain_valid_step(t) ==
    /\ threads[t].pc = "valid_reading"
    /\ IF threads[t].i <= threads[t].from
       THEN LET current_block == chain[threads[t].i]
                previous_block == chain[threads[t].i - 1]
            IN  IF /\ current_block.hash = Block_calculate_hash(current_block)
                   /\ current_block.previous_hash = previous_block.hash
                   /\ HexPrefix(current_block.hash, current_block.difficulty)
                          = Zeros(current_block.difficulty)
                THEN /\ threads' = [threads EXCEPT ![t].i = @ + 1]
                     /\ UNCHANGED last
                ELSE /\ threads' = [threads EXCEPT ![t] = IdleThread]
                     /\ last' = Result("is_chain_valid", FALSE, EmptyDict)
       ELSE /\ threads' = [threads EXCEPT ![t] = IdleThread]
            /\ last' = Result("is_chain_valid", TRUE, EmptyDict)
    /\ UNCHANGED <<chain, pending_transactions, reward_halving_interval, users,
                   clock, lock>>

NextThreads ==
    \/ \E t \in Threads, transaction \in ThreadTransactions :
          add_transaction_acquire(t, transaction)
    \/ \E t \in Threads : add_transaction_return(t)
    \/ \E t \in Threads : mine_pending_acquire(t, "M")
    \/ \E t \in Threads : mine_pending_build(t)
    \/ \E t \in Threads : mine_pending_append(t)
    \/ \E t \in Threads : mine_pending_return(t)
    \/ \E t \in Threads, address \in ReadAddresses : get_balance_begin(t, address)
    \/ \E t \in Threads : get_balance_step(t)
    \/ \E t \in Threads : is_chain_valid_begin(t)
    \/ \E t \in Threads : is_chain_valid_step(t)

ThreadSpec == Init /\ [][NextThreads]_vars

-----------------------------------------------------------------------------
(* Clients that call update_seeds_peers on the registry of Alice, for a     *)
(* sample file (id 1), the published file (id 4) and an id the registry     *)
(* need not hold, with deltas of either sign.                               *)

MaxSeeds == 45
MaxPeers == 7

CountFileIds == {1, 4}

CountDeltas == {<<-50, -1>>, <<3, 0>>, <<0, 2>>}

\* seeds and peers are unbounded integers: calls that would pass the bounds
\* of the exploration are left out
WithinCounts(username, file_id, seeds_delta, peers_delta) ==
    username \in Registered =>
       LET files == users[username].resource_manager.files
       IN  file_id \in DOMAIN files =>
              /\ files[file_id].seeds + seeds_delta <= MaxSeeds
              /\ files[file_id].peers + peers_delta <= MaxPeers

NextCounts ==
    \/ register_user("Alice")
    \/ \E r \in PublishRequests : declare_user_resources(r[1], r[2])
    \/ \E file_id \in CountFileIds, d \in CountDeltas :
          /\ WithinCounts("Alice", file_id, d[1], d[2])
          /\ UpdateSeedsPeersCall("Alice", file_id, d[1], d[2])

CountsSpec == Init /\ [][NextCounts]_vars

-----------------------------------------------------------------------------
(* Clients that hold the User object of Alice and call its update_my_file   *)
(* and remove_my_file, for the published file (id 4) and a sample file      *)
(* (id 1), while Bob downloads the published file.  last.tx holds the       *)
(* arguments of the call and, for update_my_file, the record as it was.     *)

LifecycleFileIds == {1, 4}

update_my_file(username, file_id, update_data) ==
    /\ username \in Registered
    /\ LET user == users[username]
           res == update_file(user.resource_manager, file_id, update_data,
                              user.address)
       IN  /\ users' = [users EXCEPT ![username].resource_manager = res.rm]
           /\ last' = Result("update_my_file", res.ok,
                             [username |-> username, file_id |-> file_id,
                              update_data |-> update_data,
                              before |-> get_file(user.resource_manager, file_id)])
    /\ UNCHANGED <<chain, pending_transactions, clock, reward_halving_interval,
                   lock, threads>>

remove_my_file(username, file_id) ==
    /\ username \in Registered
    /\ LET user == users[username]
           res == remove_file(user.resource_manager, file_id, user.address)
       IN  /\ users' = [users EXCEPT ![username].resource_manager = res.rm]
           /\ last' = Result("remove_my_file", res.ok,
                             RegistryArgs(username, file_id, EmptyDict,
                                          user.address))
    /\ UNCHANGED <<chain, pending_transactions, clock, reward_halving_interval,
                   lock, threads>>

NextLifecycle ==
    \/ \E username \in Handles : register_user(username)
    \/ \E r \in PublishRequests : declare_user_resources(r[1], r[2])
    \/ download_resource("Bob", "Alice", 4)
    \/ mine_block("Bob")
    \/ \E file_id \in LifecycleFileIds, is_active \in BOOLEAN :
          update_my_file("Alice", file_id, [is_active |-> is_active])
    \/ \E file_id \in LifecycleFileIds : remove_my_file("Alice", file_id)

LifecycleSpec == Init /\ [][NextLifecycle]_vars

-----------------------------------------------------------------------------
(* Clients that publish a file with a size below zero (-0.025 GB), or have  *)
(* the owner set the size of the published file below zero, before Bob      *)
(* downloads it.                                                            *)

AmountPublishRequests ==
    {<<"Alice", FileData("Alice", 250)>>, <<"Alice", FileData("Alice", -250)>>}

NextAmount ==
    \/ \E username \in Handles : register_user(username)
    \/ \E r \in AmountPublishRequests : declare_user_resources(r[1], r[2])
    \/ update_my_file("Alice", 4, [size_gb |-> -250])
    \/ download_resource("Bob", "Alice", 4)
    \/ mine_block("Bob")

AmountSpec == Init /\ [][NextAmount]_vars

-----------------------------------------------------------------------------
(* Clients that call add_file and remove_file on the registry of Alice:     *)
(* dictionaries SharedFile accepts, one that lacks required keys and one    *)
(* that names an id itself; removals of the ids given out and of a sample   *)
(* file, by the owner or with no owner_address.                             *)

MaxAdded == 3

AddFileDatas(owner_address) ==
    LET file_data == [name |-> "doc", size_gb |-> 250, uploader |-> "Alice",
                      seeds |-> 0, peers |-> 0, description |-> "published",
                      owner_address |-> owner_address]
    IN  {file_data,
         [name |-> "doc"],
         [f \in DOMAIN file_data \cup {"id"} |->
             IF f = "id" THEN 4 ELSE file_data[f]]}

AddedFileIds == 4..(3 + MaxAdded)

RemovedFileIds == {1} \cup AddedFileIds

AddFileCall(username, file_data) ==
    /\ username \in Registered
    /\ users[username].resource_manager.next_file_id < 4 + MaxAdded
    /\ LET res == add_file(users[username].resource_manager, file_data, clock)
       IN  /\ users' = [users EXCEPT ![username].resource_manager = res.rm]
           /\ last' = Result("add_file", res.ok,
                             RegistryArgs(username, res.file_id, file_data, ""))
    /\ UNCHANGED <<chain, pending_transactions, clock, reward_halving_interval,
                   lock, threads>>

NextIds ==
    \/ register_user("Alice")
    \/ \E owner_address \in {users[u].address : u \in {"Alice"} \cap Registered} :
          \E file_data \in AddFileDatas(owner_address) :
             AddFileCall("Alice", file_data)
    \/ \E file_id \in RemovedFileIds : RemoveFileCall("Alice", file_id, "")
    \/ \E file_id \in RemovedFileIds : remove_my_file("Alice", file_id)

IdSpec == Init /\ [][NextIds]_vars

-----------------------------------------------------------------------------
(* Threads that call register_user of one ResourceSharingSystem.  The       *)
(* method takes no lock: the test `username in self.users', the             *)
(* construction of the User (whose add_transaction runs inside the lock of  *)
(* the chain) and the assignment self.users[username] = user are steps      *)
(* between which another thread can run.                                    *)

\* `if username in self.users: raise ValueError'
register_user_check(t, username) ==
    /\ Idle(t)
    /\ IF username \in Registered
       THEN /\ last' = Result("register_user", FALSE, EmptyDict)
            /\ UNCHANGED threads
       ELSE /\ threads' = [threads EXCEPT ![t] =
                              [IdleThread EXCEPT !.pc = "register_checked",
                                                 !.address = username]]
            /\ UNCHANGED last
    /\ UNCHANGED <<chain, pending_transactions, reward_halving_interval, users,
                   clock, lock>>

\* user = User(username, self.blockchain)
register_user_construct(t) ==
    /\ threads[t].pc = "register_checked"
    /\ lock = NoThread
    /\ Len(pending_transactions) < MaxPending
    /\ LET made == User(threads[t].address, pending_transactions, chain, clock)
       IN  /\ pending_transactions' = made.pending
           /\ threads' = [threads EXCEPT ![t].pc = "register_constructed",
                                         ![t].user = made.user]
    /\ UNCHANGED <<chain, reward_halving_interval, users, clock, last, lock>>

\* self.users[username] = user; return user
register_user_assign(t) ==
    /\ threads[t].pc = "register_constructed"
    /\ LET user == threads[t].user
       IN  users' = [u \in Registered \cup {user.username} |->
                        IF u = user.username THEN user ELSE users[u]]
    /\ threads' = [threads EXCEPT ![t] = IdleThread]
    /\ last' = Result("register_user", TRUE, EmptyDict)
    /\ UNCHANGED <<chain, pending_transactions, reward_halving_interval, clock,
                   lock>>

NextRegister ==
    \/ Tick
    \/ \E t \in Threads, username \in Handles : register_user_check(t, username)
    \/ \E t \in Threads : register_user_construct(t)
    \/ \E t \in Threads : register_user_assign(t)
    \/ MinePendingCall("M")

RegisterSpec == Init /\ [][NextRegister]_vars

-----------------------------------------------------------------------------
(* Clients of a system in which Alice publishes a 6 GB file, worth 6000     *)
(* credits, and Bob downloads it again and again.                           *)

RepeatPublishRequests == {<<"Alice", FileData("Alice", 60000)>>}

NextRepeat ==
    \/ Tick
    \/ \E username \in Handles : register_user(username)
    \/ \E r \in RepeatPublishRequests : declare_user_resources(r[1], r[2])
    \/ download_resource("Bob", "Alice", 4)
    \/ MinePendingCall("M")

RepeatSpec == Init /\ [][NextRepeat]_vars

-----------------------------------------------------------------------------
(* Threads that call add_transaction and mine_pending_transactions and wait *)
(* for the lock.  A call is a step of its own, after which the thread waits *)
(* at `with self.lock' until the lock is free and it is the one to get it.  *)
(* The search of mine_block is a step for each nonce it tries.  A thread    *)
(* inside the region goes on; a thread that waits gets the lock if the lock *)
(* is free again and again.                                                 *)

Waiting(t) == threads[t].pc \in {"add_waiting", "mine_waiting"}

\* the calls under way that will add to the pool, or to the chain
AddsUnderWay ==
    Cardinality({t \in Threads : threads[t].pc \in {"add_waiting", "add_locked"}})

MinesUnderWay ==
    Cardinality({t \in Threads :
                    threads[t].pc \in {"mine_waiting", "mine_locked",
                                        "mine_searching", "mine_mined"}})

add_transaction_call(t, transaction) ==
    /\ Idle(t)
    /\ Len(pending_transactions) + AddsUnderWay < MaxPending
    /\ threads' = [threads EXCEPT ![t] =
                      [IdleThread EXCEPT !.pc = "add_waiting",
                                         !.transaction = transaction]]
    /\ UNCHANGED <<chain, pending_transactions, reward_halving_interval, users,
                   clock, last, lock>>

add_transaction_enter(t) ==
    /\ threads[t].pc = "add_waiting"
    /\ lock = NoThread
    /\ lock' = t
    /\ threads' = [threads EXCEPT ![t].pc = "add_locked"]
    /\ UNCHANGED <<chain, pending_transactions, reward_halving_interval, users,
                   clock, last>>

mine_pending_call(t, mining_reward_address) ==
    /\ Idle(t)
    /\ Len(chain) + MinesUnderWay < MaxChain
    /\ threads' = [threads EXCEPT ![t] =
                      [IdleThread EXCEPT !.pc = "mine_waiting",
                                         !.address = mining_reward_address]]
    /\ UNCHANGED <<chain, pending_transactions, reward_halving_interval, users,
                   clock, last, lock>>

mine_pending_enter(t) ==
    /\ threads[t].pc = "mine_waiting"
    /\ lock = NoThread
    /\ lock' = t
    /\ threads' = [threads EXCEPT ![t].pc = "mine_locked"]
    /\ UNCHANGED <<chain, pending_transactions, reward_halving_interval, users,
                   clock, last>>

\* the block of mine_pending_transactions before block.mine_block()
ConstructedBlock(pending, ch, mining_reward_address, now) ==
    LET total_fees == TotalFees(pending)
        current_reward == calculate_current_reward(ch) + total_fees
        reward_transaction ==
            Transaction("0", mining_reward_address, current_reward,
                        "mining_reward", EmptyDict, now)
        transactions_to_mine == Append(pending, reward_transaction)
    IN  Block(Len(ch), transactions_to_mine, get_latest_block(ch).hash,
              difficulty, now)

\* mine_pending_transactions: None returned for an empty pool; else the reward
\* and the block are constructed
mine_pending_construct(t) ==
    /\ threads[t].pc = "mine_locked"
    /\ IF pending_transactions = <<>>
       THEN /\ lock' = NoThread
            /\ threads' = [threads EXCEPT ![t] = IdleThread]
            /\ last' = Result("mine_pending_transactions", FALSE, EmptyDict)
       ELSE /\ threads' = [threads EXCEPT ![t].pc = "mine_searching",
                                         ![t].block =
                               ConstructedBlock(pending_transactions, chain,
                                                threads[t].address, clock)]
            /\ UNCHANGED <<lock, last>>
    /\ UNCHANGED <<chain, pending_transactions, reward_halving_interval, users,
                   clock>>

\* Block.mine_block: one round of `while self.hash[:self.difficulty] != target',
\* or the end of the loop
mine_block_step(t) ==
    /\ threads[t].pc = "mine_searching"
    /\ LET block == threads[t].block
       IN  IF HexPrefix(block.hash, block.difficulty) # Zeros(block.difficulty)
           THEN LET b1 == [block EXCEPT !.nonce = @ + 1]
                IN  threads' = [threads EXCEPT ![t].block =
                                   [b1 EXCEPT !.hash = Block_calculate_hash(b1)]]
           ELSE threads' = [threads EXCEPT ![t].pc = "mine_mined"]
    /\ UNCHANGED <<chain, pending_transactions, reward_halving_interval, users,
                   clock, last, lock>>

\* what a thread does to get the lock, and what it does holding it
EnterStep(t) == add_transaction_enter(t) \/ mine_pending_enter(t)

InsideStep(t) ==
    \/ add_transaction_return(t)
    \/ mine_pending_construct(t)
    \/ mine_block_step(t)
    \/ mine_pending_append(t)
    \/ mine_pending_return(t)

NextLive ==
    \/ \E t \in Threads, transaction \in ThreadTransactions :
          add_transaction_call(t, transaction)
    \/ \E t \in Threads : add_transaction_enter(t)
    \/ \E t \in Threads : add_transaction_return(t)
    \/ \E t \in Threads : mine_pending_call(t, "M")
    \/ \E t \in Threads : mine_pending_enter(t)
    \/ \E t \in Threads : mine_pending_construct(t)
    \/ \E t \in Threads : mine_block_step(t)
    \/ \E t \in Threads : mine_pending_append(t)
    \/ \E t \in Threads : mine_pending_return(t)

LiveSpec ==
    /\ Init /\ [][NextLive]_vars
    /\ \A t \in Threads : WF_vars(InsideStep(t)) /\ SF_vars(EnterStep(t))

-----------------------------------------------------------------------------
(* Clients that publish with a dictionary that names an owner_address: an   *)
(* identity that is no user's, the empty one, or, when Bob publishes, the   *)
(* identity of Alice.                                                       *)

OwnedFileData(username, owner_address) ==
    [name |-> "doc", size_gb |-> 250, uploader |-> username, seeds |-> 0,
     peers |-> 0, description |-> "published", owner_address |-> owner_address]

OwnerPublishRequests ==
    {<<"Alice", FileData("Alice", 250)>>,
     <<"Alice", OwnedFileData("Alice", "mallory")>>,
     <<"Alice", OwnedFileData("Alice", "")>>,
     <<"Bob", OwnedFileData("Bob", Address("Alice", 0))>>}

NextPublish ==
    \/ \E username \in Handles : register_user(username)
    \/ \E r \in OwnerPublishRequests : declare_user_resources(r[1], r[2])
    \/ \E username \in Handles : mine_block(username)

PublishSpec == Init /\ [][NextPublish]_vars

\* END OF MODEL ACTIONS

-----------------------------------------------------------------------------
(* What the properties below speak of *)

\* the places of the confirmed transactions: block i, transaction j
Positions(ch) ==
    UNION {{<<i, j>> : j \in 1..Len(ch[i].transactions)} : i \in 1..Len(ch)}

TxAt(ch, p) == ch[p[1]].transactions[p[2]]

\* every identity that owns an address or is named by a transaction
Identities ==
    {"0", "system", ""} \cup Addresses
    \cup {TxAt(chain, p).sender : p \in Positions(chain)}
    \cup {TxAt(chain, p).receiver : p \in Positions(chain)}
    \cup {pending_transactions[j].receiver : j \in 1..Len(pending_transactions)}

RECURSIVE SumAmounts(_, _)
SumAmounts(S, ch) ==
    IF S = {} THEN 0
    ELSE LET p == CHOOSE q \in S : TRUE
         IN  TxAt(ch, p).amount + SumAmounts(S \ {p}, ch)

\* credits received in confirmed blocks minus credits sent in confirmed blocks
LedgerSum(ch, X) ==
    SumAmounts({p \in Positions(ch) : TxAt(ch, p).receiver = X}, ch)
    - (IF X = "0" THEN 0
       ELSE SumAmounts({p \in Positions(ch) : TxAt(ch, p).sender = X}, ch))

FeeKinds == {"resource_download", "transfer"}

RECURSIVE SumPool(_, _)
SumPool(J, pool) ==
    IF J = {} THEN 0
    ELSE LET j == CHOOSE k \in J : TRUE
         IN  pool[j].amount \div 1000 + SumPool(J \ {j}, pool)

PoolFees(pool) ==
    SumPool({j \in 1..Len(pool) : pool[j].transaction_type \in FeeKinds}, pool)

LastTx(block) == block.transactions[Len(block.transactions)]

-----------------------------------------------------------------------------
(* C1: in every reachable state every identity other than "0" has a balance *)
(* of at least 0.                                                           *)
C1_BalanceNonNegative ==
    \A X \in Identities \ {"0"} : get_balance(chain, X) >= 0

(* C2: add_transaction admits a transaction of sender "0" and returns true;  *)
(* for any other sender it admits and returns true exactly when the sender's *)
(* balance over the confirmed blocks, the pending pool ignored, is at least  *)
(* the amount; otherwise it returns false.                                   *)
C2_AdmitIffConfirmedBalance ==
    [][last'.op = "add_transaction" =>
         LET tx == last'.tx
             admit == tx.sender = "0" \/ LedgerSum(chain, tx.sender) >= tx.amount
         IN  /\ last'.ret = admit
             /\ pending_transactions' =
                    IF admit THEN Append(pending_transactions, tx)
                    ELSE pending_transactions]_vars

\* a second transfer of one sender was admitted on top of a pending one
C2_Witness ==
    /\ last.op = "add_transaction" /\ last.ret /\ last.tx.sender # "0"
    /\ Len(pending_transactions) = 2
    /\ pending_transactions[1].sender = last.tx.sender
    /\ pending_transactions[2] = last.tx

(* C3: add_transaction of a sender other than "0" whose balance is below the *)
(* amount returns false and leaves the pending pool and the chain as they    *)
(* were.                                                                     *)
C3_RefusalChangesNothing ==
    [][(/\ last'.op = "add_transaction"
        /\ last'.tx.sender # "0"
        /\ LedgerSum(chain, last'.tx.sender) < last'.tx.amount)
       => (/\ last'.ret = FALSE
           /\ pending_transactions' = pending_transactions
           /\ chain' = chain)]_vars

\* a transfer was refused while the pool held a transaction
C3_Witness ==
    /\ last.op = "add_transaction" /\ ~last.ret
    /\ pending_transactions # <<>>
    /\ get_balance(chain, last.tx.sender) < last.tx.amount

(* C4: the balance of every identity is the sum of the amounts it received   *)
(* in confirmed blocks minus, unless it is "0", the sum of the amounts it    *)
(* sent in confirmed blocks; pending transactions do not count.              *)
C4_BalanceIsConfirmedReplay ==
    \A X \in Identities : get_balance(chain, X) = LedgerSum(chain, X)

\* a funded identity has a pending transfer that its balance does not show
C4_Witness ==
    /\ Len(chain) >= 2
    /\ \E j \in 1..Len(pending_transactions) :
          LET tx == pending_transactions[j]
          IN  /\ tx.sender # "0" /\ tx.amount > 0
              /\ get_balance(chain, tx.sender) > 0
              /\ get_balance(chain, tx.sender) = LedgerSum(chain, tx.sender)

(* C5: every block after the first names the hash of the block before it as  *)
(* its previous hash.                                                        *)
C5_HashLinked ==
    \A i \in 2..Len(chain) : chain[i].previous_hash = chain[i - 1].hash

C5_Witness ==
    /\ Len(chain) = 3
    /\ chain[3].previous_hash = chain[2].hash
    /\ chain[2].hash # chain[1].hash

(* C6: the hash of every block, the genesis block too, is the hash           *)
(* recomputed from its fields, and starts with difficulty zeros.             *)
C6_BlocksSealed ==
    \A i \in 1..Len(chain) :
        /\ chain[i].hash = Block_calculate_hash(chain[i])
        /\ HexPrefix(chain[i].hash, chain[i].difficulty) = Zeros(chain[i].difficulty)

\* a mined block whose search took more than one step
C6_Witness ==
    /\ Len(chain) >= 2
    /\ \E i \in 2..Len(chain) : chain[i].nonce > 1
    /\ \A i \in 1..Len(chain) :
          HexPrefix(chain[i].hash, difficulty) = Zeros(difficulty)

(* C7: is_valid() is true in the initial state and after every sequence of   *)
(* admissions, refusals, mines and mines of an empty pool.                   *)
C7_ChainStaysValid == is_chain_valid(chain)

\* two blocks mined, then a refused admission
C7_Witness ==
    /\ Len(chain) = 3
    /\ last.op = "add_transaction" /\ ~last.ret
    /\ is_chain_valid(chain)

(* Blocks changed in place, without mining them again *)

\* a digest that is no block's and no transaction's
ForgedHash == Sha256(<<"forged">>, 0)

\* the block with one field changed in place
TamperedBlocks(block) ==
    {[block EXCEPT !.index = @ + 1],
     [block EXCEPT !.timestamp = @ + 1],
     [block EXCEPT !.previous_hash = ForgedHash],
     [block EXCEPT !.nonce = @ + 1],
     [block EXCEPT !.hash = ForgedHash]}
    \cup {[block EXCEPT !.difficulty = d] : d \in (0..HexLen) \ {block.difficulty}}
    \cup UNION {{[block EXCEPT !.transactions[j].amount = @ + 1],
                 [block EXCEPT !.transactions[j].sender = "mallory"],
                 [block EXCEPT !.transactions[j].receiver = "mallory"],
                 [block EXCEPT !.transactions[j].transaction_type = "transfer"],
                 [block EXCEPT !.transactions[j].timestamp = @ + 1],
                 [block EXCEPT !.transactions[j].hash = ForgedHash]} :
                   j \in 1..Len(block.transactions)}

TamperedChains(ch) ==
    UNION {{[ch EXCEPT ![i] = b] : b \in TamperedBlocks(ch[i]) \ {ch[i]}} :
              i \in 1..Len(ch) - 1}

(* C8: changing one field of a block that is not the tip (the genesis block  *)
(* too), or of one of its transactions, without mining it again makes        *)
(* is_valid() false.                                                         *)
C8_TamperingDetected ==
    \A tampered \in TamperedChains(chain) : ~is_chain_valid(tampered)

(* C9: every block after the genesis block holds exactly one mining_reward   *)
(* transaction; it is the last of the block, its sender is "0" and its       *)
(* receiver the identity of the miner.                                       *)
C9_ExactlyOneRewardLast ==
    \A i \in 2..Len(chain) :
        LET txs == chain[i].transactions
        IN  /\ {j \in 1..Len(txs) : txs[j].transaction_type = "mining_reward"}
                   = {Len(txs)}
            /\ txs[Len(txs)].sender = "0"
            /\ txs[Len(txs)].receiver \in Addresses

(* C10: the amount of the mining reward of a mined block is current_reward() *)
(* at the chain length before the append plus 0.001 times the amounts of the *)
(* pool's transactions of kind resource_download or transfer, and of no      *)
(* other kind.                                                               *)
C10_RewardIsBasePlusFees ==
    [][(last'.op = "mine_block" /\ last'.ret) =>
         LET block == chain'[Len(chain')]
         IN  /\ Len(chain') = Len(chain) + 1
             /\ LastTx(block).transaction_type = "mining_reward"
             /\ LastTx(block).amount =
                    calculate_current_reward(chain) + PoolFees(pending_transactions)]_vars

\* a block was mined from a pool holding a fee-paying transaction and another
\* transaction of a positive amount that pays no fee
C10_Witness ==
    /\ last.op = "mine_block" /\ last.ret
    /\ LET txs == get_latest_block(chain).transactions
       IN  \E j, k \in 1..Len(txs) - 1 :
              /\ txs[j].transaction_type \in FeeKinds /\ txs[j].amount > 0
              /\ txs[k].transaction_type \notin FeeKinds /\ txs[k].amount > 0
              /\ txs[Len(txs)].amount = mining_reward + txs[j].amount \div 1000

(* C11: the transactions of a mined block, its last (the mining reward)      *)
(* left out, are the transactions of the pending pool in the order of their  *)
(* admission: every call changes the pool by appending one transaction at    *)
(* its end or, mining, by moving all of it, in order, into the new block, so *)
(* that no transaction is confirmed in a later block than one admitted after *)
(* it.                                                                       *)
C11_ConfirmedInAdmissionOrder ==
    [][\/ pending_transactions' = pending_transactions /\ chain' = chain
       \/ /\ chain' = chain
          /\ Len(pending_transactions') = Len(pending_transactions) + 1
          /\ SubSeq(pending_transactions', 1, Len(pending_transactions))
                 = pending_transactions
       \/ /\ last'.op = "mine_block" /\ last'.ret
          /\ Len(chain') = Len(chain) + 1
          /\ SubSeq(chain', 1, Len(chain)) = chain
          /\ pending_transactions' = <<>>
          /\ LET txs == chain'[Len(chain')].transactions
             IN  /\ Len(txs) = Len(pending_transactions) + 1
                 /\ SubSeq(txs, 1, Len(txs) - 1) = pending_transactions
                 /\ txs[Len(txs)].transaction_type = "mining_reward"]_vars

\* a block was mined out of a pool of two different transactions, and a
\* transaction admitted after an earlier mine is in the later block
C11_Witness ==
    /\ last.op = "mine_block" /\ last.ret
    /\ Len(chain) = 3
    /\ LET txs == chain[3].transactions
       IN  /\ Len(txs) = 3
           /\ txs[1].transaction_type # txs[2].transaction_type
           /\ txs[1].timestamp <= txs[2].timestamp

(* C12: mine_pending called on an empty pool returns none, appends no block, *)
(* mints no reward and leaves every balance as it was.                       *)
C12_EmptyPoolMineChangesNothing ==
    [][(/\ last'.op = "mine_block"
        /\ pending_transactions = <<>>)
       => (/\ last'.ret = FALSE
           /\ chain' = chain
           /\ pending_transactions' = <<>>
           /\ \A X \in Identities :
                 get_balance(chain', X) = get_balance(chain, X))]_vars

\* every handle is registered, so that the call reached mine_pending, the
\* pool was empty and accounts hold credits
C12_Witness ==
    /\ last.op = "mine_block" /\ ~last.ret
    /\ Registered = Handles
    /\ pending_transactions = <<>>
    /\ Len(chain) = 2
    /\ \E X \in Addresses : get_balance(chain, X) > 0

(* C13: mine_pending on a pool that is not empty appends exactly one block;  *)
(* its index is the chain length before the call and its previous hash the   *)
(* hash of the tip before the call; the blocks before it are unchanged, the  *)
(* block at position i has index i, and the pool is empty afterwards.  (A   *)
(* mine_block call reaches mine_pending when it returns a block, and always  *)
(* when every handle is registered.)                                         *)
C13_MineAppendsOneBlock ==
    [][/\ \A i \in 1..Len(chain') : chain'[i].index = i - 1
       /\ Len(chain') >= Len(chain)
       /\ SubSeq(chain', 1, Len(chain)) = chain
       /\ (/\ last'.op = "mine_block"
           /\ \/ last'.ret
              \/ pending_transactions # <<>> /\ Registered = Handles)
          => (/\ last'.ret
              /\ Len(chain') = Len(chain) + 1
              /\ chain'[Len(chain')].index = Len(chain)
              /\ chain'[Len(chain')].previous_hash = get_latest_block(chain).hash
              /\ pending_transactions' = <<>>)]_vars

\* a second block was mined on top of a mined block
C13_Witness ==
    /\ last.op = "mine_block" /\ last.ret
    /\ Len(chain) = 3
    /\ chain[3].index = 2
    /\ pending_transactions = <<>>

(* C14: current_reward() is base_reward / 2^(chain_length //                 *)
(* halving_interval) at every chain length: the base reward while the chain  *)
(* is shorter than one halving interval, half of it when the chain length is *)
(* one halving interval; and the reward a mined block pays is that amount at *)
(* the chain length before the block, plus the fees of the block.            *)
HalvingsAt(chain_length) ==
    CHOOSE k \in 0..chain_length :
        /\ k * reward_halving_interval <= chain_length
        /\ chain_length < (k + 1) * reward_halving_interval

C14_RewardHalves ==
    LET current_reward == calculate_current_reward(chain)
    IN  /\ current_reward * Pow2(HalvingsAt(Len(chain))) = mining_reward
        /\ Len(chain) < reward_halving_interval => current_reward = mining_reward
        /\ Len(chain) = reward_halving_interval => 2 * current_reward = mining_reward
        /\ \A i \in 2..Len(chain) :
              LET txs == chain[i].transactions
                  fees == PoolFees(SubSeq(txs, 1, Len(txs) - 1))
              IN  (LastTx(chain[i]).amount - fees) * Pow2(HalvingsAt(i - 1))
                      = mining_reward

\* a block mined below the halving interval pays the base reward, the block
\* mined at a chain length of one halving interval pays half of it
C14_Witness ==
    /\ reward_halving_interval = 2
    /\ Len(chain) = 3
    /\ LastTx(chain[2]).amount = mining_reward
    /\ LastTx(chain[3]).amount = mining_reward \div 2
    /\ calculate_current_reward(chain) = mining_reward \div 2

(* The registry a registry call was made on, before and after the call *)
CalledFiles == users[last'.tx.username].resource_manager.files
CalledFilesAfter == users'[last'.tx.username].resource_manager.files

(* C15: remove(id, requester) and update(id, patch, requester) succeed       *)
(* exactly when the registry holds a record of that id and the requester is  *)
(* its owner; with any other requester, the empty or absent one too, they    *)
(* fail and leave the records of the registry as they were.                  *)
C15_OnlyOwnerMutates ==
    [][last'.op \in {"remove_file", "update_file"} =>
         LET args == last'.tx
             authorized ==
                 /\ args.file_id \in DOMAIN CalledFiles
                 /\ args.owner_address = CalledFiles[args.file_id].owner_address
         IN  /\ last'.ret = authorized
             /\ ~authorized => CalledFilesAfter = CalledFiles]_vars

(* C16: the id and the owner of a resource never change after its insertion: *)
(* no call changes them, and an update whose patch holds the keys id or      *)
(* owner_address leaves the two fields as they were while it assigns the     *)
(* other keys of the patch that are fields.                                  *)
C16_IdAndOwnerImmutable ==
    [][/\ \A u \in Registered :
             LET files == users[u].resource_manager.files
                 files_after == users'[u].resource_manager.files
             IN  /\ \A id \in DOMAIN files_after : files_after[id].id = id
                 /\ \A id \in DOMAIN files \cap DOMAIN files_after :
                       files_after[id].owner_address = files[id].owner_address
       /\ (last'.op = "update_file" /\ last'.ret) =>
             LET args == last'.tx
                 file == CalledFiles[args.file_id]
                 file_after == CalledFilesAfter[args.file_id]
             IN  \A f \in FileFields :
                    file_after[f] =
                        IF f \in DOMAIN args.update_data \ {"id", "owner_address"}
                        THEN args.update_data[f] ELSE file[f]]_vars

\* the owner's update with a patch naming id, owner_address and name was
\* applied to a published file: the name changed, id and owner did not
C16_Witness ==
    /\ last.op = "update_file" /\ last.ret
    /\ {"id", "owner_address", "name"} \subseteq DOMAIN last.tx.update_data
    /\ LET user == users[last.tx.username]
           file == user.resource_manager.files[last.tx.file_id]
       IN  /\ last.tx.owner_address = user.address
           /\ file.name = last.tx.update_data.name
           /\ file.id = last.tx.file_id
           /\ file.id # last.tx.update_data.id
           /\ file.owner_address = user.address

(* C17: right after register_user succeeds the registry of the new user      *)
(* holds no resource, and until that user publishes one a download naming    *)
(* the user as owner is refused for every id.                                *)
HasPublished(user) ==
    \E id \in DOMAIN user.resource_manager.files :
        user.resource_manager.files[id].owner_address = user.address

C17_NewRegistryEmpty ==
    [][/\ (last'.op = "register_user" /\ last'.ret) =>
             \A u \in (DOMAIN users') \ DOMAIN users :
                 DOMAIN users'[u].resource_manager.files = {}
       /\ (last'.op = "download_resource" /\ last'.ret) =>
             \E u \in Registered : HasPublished(users[u])]_vars

(* C18: register_user of a new handle appends exactly one transaction to the *)
(* pending pool: kind initial_credit, sender "0", receiver the new identity, *)
(* amount 10000; and the balance of a user is 0 in every state in which no   *)
(* block holds that transaction.                                             *)
EndowmentConfirmed(ch, address) ==
    \E p \in Positions(ch) :
        /\ TxAt(ch, p).transaction_type = "initial_credit"
        /\ TxAt(ch, p).receiver = address

C18_EndowmentPendingUntilMined ==
    [][/\ (last'.op = "register_user" /\ last'.ret) =>
             \E u \in (DOMAIN users') \ DOMAIN users :
                 /\ DOMAIN users' = DOMAIN users \cup {u}
                 /\ Len(pending_transactions') = Len(pending_transactions) + 1
                 /\ SubSeq(pending_transactions', 1, Len(pending_transactions))
                        = pending_transactions
                 /\ LET tx == pending_transactions'[Len(pending_transactions')]
                    IN  /\ tx.transaction_type = "initial_credit"
                        /\ tx.sender = "0"
                        /\ tx.receiver = users'[u].address
                        /\ tx.amount = Credits(10000)
       /\ \A u \in DOMAIN users' :
             ~EndowmentConfirmed(chain', users'[u].address)
                 => get_balance(chain', users'[u].address) = 0]_vars

\* a user was registered after a block was mined: the endowment is in the
\* pool, the balance is 0, an earlier user holds credits
C18_Witness ==
    /\ last.op = "register_user" /\ last.ret
    /\ Len(chain) >= 2
    /\ LET tx == pending_transactions[Len(pending_transactions)]
       IN  /\ tx.transaction_type = "initial_credit"
           /\ tx.receiver \in Addresses
           /\ get_balance(chain, tx.receiver) = 0
    /\ \E X \in Addresses : get_balance(chain, X) >= Credits(10000)

(* C19: register_user of a handle that is registered fails and changes       *)
(* nothing: the handle keeps its identity and registry, the pending pool and *)
(* the chain are as before; a call that succeeds registers a new handle and  *)
(* leaves the users registered before as they were.                          *)
C19_DuplicateRegisterChangesNothing ==
    [][last'.op = "register_user" =>
         /\ chain' = chain
         /\ \A u \in DOMAIN users : u \in DOMAIN users' /\ users'[u] = users[u]
         /\ last'.ret => DOMAIN users' # DOMAIN users
         /\ DOMAIN users = Handles => ~last'.ret
         /\ ~last'.ret => /\ users' = users
                          /\ pending_transactions' = pending_transactions]_vars

\* a registration was refused while the pool held transactions
C19_Witness ==
    /\ last.op = "register_user" /\ ~last.ret
    /\ Registered # {}
    /\ pending_transactions # <<>>
    /\ Len(chain) >= 2

(* C20: after publish returns success the registry of the owner holds        *)
(* exactly one new resource, with the fields given, and the pending pool     *)
(* exactly one new transaction: kind resource_declaration, sender "0",       *)
(* receiver the identity of the owner, amount size_gb x 1000; the rest of    *)
(* the pool, the chain, the other resources and users are as before.         *)
C20_PublishAddsResourceAndTransaction ==
    [][(last'.op = "declare_user_resources" /\ last'.ret) =>
         \E r \in PublishRequests :
            LET u == r[1]
                files == users[u].resource_manager.files
                files_after == users'[u].resource_manager.files
            IN  /\ u \in Registered
                /\ DOMAIN users' = DOMAIN users
                /\ \A v \in Registered \ {u} : users'[v] = users[v]
                /\ users'[u].address = users[u].address
                /\ \E id \in DOMAIN files_after \ DOMAIN files :
                      /\ DOMAIN files_after = DOMAIN files \cup {id}
                      /\ \A i \in DOMAIN files : files_after[i] = files[i]
                      /\ \A f \in DOMAIN r[2] : files_after[id][f] = r[2][f]
                      /\ files_after[id].owner_address = users[u].address
                      /\ Len(pending_transactions') = Len(pending_transactions) + 1
                      /\ SubSeq(pending_transactions', 1, Len(pending_transactions))
                             = pending_transactions
                      /\ LET tx == pending_transactions'[Len(pending_transactions')]
                         IN  /\ tx.transaction_type = "resource_declaration"
                             /\ tx.sender = "0"
                             /\ tx.receiver = users[u].address
                             /\ tx.amount = files_after[id].size_gb * 1000
                /\ chain' = chain]_vars

\* a 0.025 GB file was published while the pool held a transaction: the
\* pool's last transaction declares it for 25 credits
C20_Witness ==
    /\ last.op = "declare_user_resources" /\ last.ret
    /\ Len(pending_transactions) = 2
    /\ pending_transactions[2].transaction_type = "resource_declaration"
    /\ pending_transactions[2].amount = Credits(25)
    /\ 4 \in DOMAIN users["Alice"].resource_manager.files
    /\ pending_transactions[2].receiver = users["Alice"].address

(* C21: when publish returns false for a user that exists, the registry of   *)
(* the owner holds the resources it held before the call and the pending     *)
(* pool is unchanged; and in every state each resource a user owns has its   *)
(* declaration transaction, in the pool or in a block, and each declaration  *)
(* transaction its resource.                                                 *)
Declarations(pool, ch) ==
    {pool[j] : j \in {k \in 1..Len(pool) :
                         pool[k].transaction_type = "resource_declaration"}}
    \cup {TxAt(ch, p) : p \in {q \in Positions(ch) :
                         TxAt(ch, q).transaction_type = "resource_declaration"}}

Declared(us, pool, ch) ==
    /\ \A u \in DOMAIN us :
          \A id \in DOMAIN us[u].resource_manager.files :
              us[u].resource_manager.files[id].owner_address = us[u].address
                  => \E tx \in Declarations(pool, ch) :
                        /\ tx.receiver = us[u].address
                        /\ tx.resource_data.id = id
    /\ \A tx \in Declarations(pool, ch) :
          \E u \in DOMAIN us :
              /\ tx.receiver = us[u].address
              /\ tx.resource_data.id \in DOMAIN us[u].resource_manager.files

C21_FailedPublishChangesNothing ==
    [][/\ \A r \in PublishRequests :
             (/\ r[1] \in Registered
              /\ declare_user_resources(r[1], r[2])
              /\ ~last'.ret)
             => /\ \A u \in Registered :
                      users'[u].resource_manager.files
                          = users[u].resource_manager.files
                /\ DOMAIN users' = DOMAIN users
                /\ pending_transactions' = pending_transactions
                /\ chain' = chain
       /\ Declared(users', pending_transactions', chain')]_vars

\* a publish of a registered user failed, the id it was given is used up,
\* while the pool held a transaction
C21_Witness ==
    /\ last.op = "declare_user_resources" /\ ~last.ret
    /\ "Alice" \in Registered
    /\ users["Alice"].resource_manager.next_file_id = 5
    /\ DOMAIN users["Alice"].resource_manager.files = {1, 2, 3}
    /\ pending_transactions # <<>>

(* The download calls *)

\* the registry the request names, and whether both handles are registered
RequestedFiles(r) == users[r[2]].resource_manager.files
RequestedFilesAfter(r) == users'[r[2]].resource_manager.files
BothRegistered(r) == r[1] \in Registered /\ r[2] \in Registered

(* C22: download with the downloader's handle equal to the owner's is        *)
(* refused for every id the registry of that user holds, and leaves the      *)
(* pending pool, the chain and the seed count of the resource as they were.  *)
C22_SelfDownloadRefused ==
    [][\A r \in AllDownloadRequests :
          (/\ r[1] = r[2] /\ r[1] \in Registered
           /\ r[3] \in DOMAIN RequestedFiles(r)
           /\ download_resource(r[1], r[2], r[3]))
          => /\ ~last'.ret
             /\ pending_transactions' = pending_transactions
             /\ chain' = chain
             /\ RequestedFilesAfter(r)[r[3]].seeds = RequestedFiles(r)[r[3]].seeds]_vars

(* C23: download returns false and changes nothing (pool, chain, seed and    *)
(* peer counts) when the registry of the owner holds no resource of the id   *)
(* or the resource is not active: a resource its owner switched off is not   *)
(* downloaded until it is switched on again.                                 *)
C23_MissingOrInactiveRefused ==
    [][\A r \in AllDownloadRequests :
          (/\ BothRegistered(r)
           /\ \/ r[3] \notin DOMAIN RequestedFiles(r)
              \/ ~RequestedFiles(r)[r[3]].is_active
           /\ download_resource(r[1], r[2], r[3]))
          => /\ ~last'.ret
             /\ pending_transactions' = pending_transactions
             /\ chain' = chain
             /\ users' = users]_vars

\* Bob, who downloaded Alice's file before and still has the credits for it,
\* is refused once the file is switched off
C23_Witness ==
    /\ last.op = "download_resource" /\ ~last.ret
    /\ BothRegistered(<<"Bob", "Alice", 4>>)
    /\ 4 \in DOMAIN users["Alice"].resource_manager.files
    /\ LET file == users["Alice"].resource_manager.files[4]
       IN  /\ ~file.is_active
           /\ file.seeds = 1
           /\ get_balance(chain, users["Bob"].address)
                  >= file.size_gb * 1000 + file.size_gb

(* C24: a download is accepted only if the confirmed balance of the          *)
(* downloader is at least cost + fee, with cost = size_gb x 1000 and         *)
(* fee = cost x 0.001; with a smaller balance (one in [cost, cost + fee),    *)
(* or the zero balance of a user whose endowment is not mined) it is refused *)
(* and the pending pool and the chain length stay as they were.              *)
C24_DownloadNeedsCostPlusFee ==
    [][\A r \in AllDownloadRequests :
          (/\ BothRegistered(r)
           /\ r[3] \in DOMAIN RequestedFiles(r)
           /\ download_resource(r[1], r[2], r[3]))
          => LET cost == RequestedFiles(r)[r[3]].size_gb * 1000
                 fee == cost \div 1000
                 balance == LedgerSum(chain, users[r[1]].address)
             IN  /\ last'.ret => balance >= cost + fee
                 /\ balance < cost + fee
                       => /\ ~last'.ret
                          /\ pending_transactions' = pending_transactions
                          /\ Len(chain') = Len(chain)]_vars

\* Bob holds the cost of Alice's active 10 GB file but not cost + fee, and
\* his download was refused
C24_Witness ==
    /\ last.op = "download_resource" /\ ~last.ret
    /\ BothRegistered(<<"Bob", "Alice", 4>>)
    /\ 4 \in DOMAIN users["Alice"].resource_manager.files
    /\ LET file == users["Alice"].resource_manager.files[4]
           balance == get_balance(chain, users["Bob"].address)
       IN  /\ file.is_active
           /\ file.seeds = 0
           /\ file.size_gb * 1000 <= balance
           /\ balance < file.size_gb * 1000 + file.size_gb

(* C25: a download that returns true appends exactly one transaction to the  *)
(* pending pool, of kind resource_download, from the identity of the         *)
(* downloader to the identity that owns the resource, for the cost (not      *)
(* cost + fee), and adds exactly 1 to the seed count of the resource; one    *)
(* that returns false leaves the seed count as it was.                       *)
C25_DownloadEnqueuesCostAndSeeds ==
    [][\A r \in AllDownloadRequests :
          (BothRegistered(r) /\ download_resource(r[1], r[2], r[3]))
          => /\ last'.ret =>
                   /\ r[3] \in DOMAIN RequestedFiles(r)
                   /\ Len(pending_transactions') = Len(pending_transactions) + 1
                   /\ SubSeq(pending_transactions', 1, Len(pending_transactions))
                          = pending_transactions
                   /\ LET tx == pending_transactions'[Len(pending_transactions')]
                          file == RequestedFiles(r)[r[3]]
                      IN  /\ tx.transaction_type = "resource_download"
                          /\ tx.sender = users[r[1]].address
                          /\ tx.receiver = file.owner_address
                          /\ tx.amount = file.size_gb * 1000
                          /\ RequestedFilesAfter(r)[r[3]].seeds = file.seeds + 1
                          /\ RequestedFilesAfter(r)[r[3]].peers = file.peers
             /\ ~last'.ret => users' = users]_vars

\* Bob's download of Alice's 0.025 GB file was accepted: 25 credits from Bob
\* to Alice are in the pool, the file has one seed
C25_Witness ==
    /\ last.op = "download_resource" /\ last.ret
    /\ BothRegistered(<<"Bob", "Alice", 4>>)
    /\ LET tx == pending_transactions[Len(pending_transactions)]
       IN  /\ tx.transaction_type = "resource_download"
           /\ tx.sender = users["Bob"].address
           /\ tx.receiver = users["Alice"].address
           /\ tx.amount = Credits(25)
           /\ users["Alice"].resource_manager.files[4].seeds = 1

(* C26: when a block holding one download of cost c from D to O, and no      *)
(* other transaction that bears a fee, is mined by a third identity M, the   *)
(* mine takes exactly c from the balance of D (the fee is not debited), adds *)
(* exactly c to the balance of O, on top of what else the pool holds for O,  *)
(* and adds the base reward + 0.001 x c to the balance of M: 50.025 for      *)
(* c = 25 and a base reward of 50.                                           *)
RECURSIVE SumReceived(_, _, _)
SumReceived(J, pool, X) ==
    IF J = {} THEN 0
    ELSE LET j == CHOOSE k \in J : TRUE
         IN  (IF pool[j].receiver = X THEN pool[j].amount ELSE 0)
             + SumReceived(J \ {j}, pool, X)

C27_RegisterThenMine ==
    [][\A u \in Handles :
          (/\ Len(chain) = 1
           /\ Registered = {u}
           /\ Len(pending_transactions) = 1
           /\ pending_transactions[1].transaction_type = "initial_credit"
           /\ mine_block(u))
          => /\ last'.ret
             /\ Len(chain') = 2
             /\ get_balance(chain', users[u].address)
                    = Credits(10000) + Credits(50)]_vars

C27_Witness ==
    /\ last.op = "mine_block" /\ last.ret
    /\ Len(chain) = 2
    /\ Cardinality(Registered) = 1
    /\ Len(chain[2].transactions) = 2
    /\ chain[2].transactions[1].transaction_type = "initial_credit"
    /\ \A u \in Registered :
          /\ LastTx(chain[2]).receiver = users[u].address
          /\ get_balance(chain, users[u].address) = Credits(10050)

(* C28: publish, download (the downloader's or the owner's handle not        *)
(* registered) and mine called with a handle that is not registered return   *)
(* false or none and leave the users, their registries, the pending pool and *)
(* the chain as they were.                                                   *)
NothingChanged ==
    /\ ~last'.ret
    /\ users' = users
    /\ pending_transactions' = pending_transactions
    /\ chain' = chain

C28_UnknownHandleChangesNothing ==
    [][/\ \A r \in PublishRequests :
             (r[1] \notin Registered /\ declare_user_resources(r[1], r[2]))
                 => NothingChanged
       /\ \A r \in DownloadRequests :
             (~BothRegistered(r) /\ download_resource(r[1], r[2], r[3]))
                 => NothingChanged
       /\ \A u \in Handles :
             (u \notin Registered /\ mine_block(u)) => NothingChanged]_vars

\* Bob holds credits and the pool a transaction; Alice is not registered,
\* and a download, which names her as the owner, returned false
C28_Witness ==
    /\ last.op = "download_resource" /\ ~last.ret
    /\ Registered = {"Bob"}
    /\ Len(chain) >= 2
    /\ get_balance(chain, users["Bob"].address) > 0
    /\ pending_transactions # <<>>

-----------------------------------------------------------------------------
\* the threads inside `with self.lock', and those reading the chain
InRegion == {t \in Threads : threads[t].pc \in {"add_locked", "mine_locked",
                                               "mine_searching", "mine_mined",
                                               "mine_appended"}}

Reading == {t \in Threads : threads[t].pc \in {"balance_reading", "valid_reading"}}

\* a block that has its final nonce: hash recomputes and meets the difficulty
Sealed(block) ==
    /\ block.hash = Block_calculate_hash(block)
    /\ HexPrefix(block.hash, block.difficulty) = Zeros(block.difficulty)

\* the thread t returns from get_balance in this step
BalanceReturns(t) ==
    threads[t].pc = "balance_reading" /\ threads'[t].pc = "idle"

\* C29: get_balance and is_chain_valid run in the mutual-exclusion region of
\* add_transaction and mine_pending_transactions: while a thread reads the
\* chain for a balance or a validation, no thread is inside the critical
\* section of add_transaction or of mine_pending_transactions.
C29_ReadersExcluded == Reading # {} => InRegion = {}

\* C30: a reader concurrent with mine_pending_transactions never sees a
\* partially constructed block: every block of the chain is sealed at every
\* moment, a validation returns True, and a balance read returns the balance
\* over a whole prefix of the chain, one that has at least the blocks present
\* when the read began: the new block is counted entirely or not at all.
C30_NoPartialBlock ==
    /\ [](\A i \in 1..Len(chain) : Sealed(chain[i]))
    /\ [](last.op = "is_chain_valid" => last.ret)
    /\ [][\A t \in Threads :
            BalanceReturns(t) =>
               \E k \in threads[t].from..Len(chain) :
                  last'.tx.balance
                     = get_balance(SubSeq(chain, 1, k), threads[t].address)]_vars

\* a balance read that began before the append returned the balance with the
\* whole new block, reward included, while the miner was still in its region
C30_Witness ==
    /\ last.op = "get_balance"
    /\ last.tx.address = "M"
    /\ last.tx.from = 1
    /\ Len(chain) = 2
    /\ last.tx.balance = get_balance(chain, "M")
    /\ last.tx.balance >= mining_reward
    /\ \E t \in Threads : threads[t].pc = "mine_appended"

-----------------------------------------------------------------------------
Max0(n) == IF n > 0 THEN n ELSE 0

(* C31: update_seeds_peers(id, seeds_delta, peers_delta) sets seeds to       *)
(* max(0, seeds + seeds_delta) and peers to max(0, peers + peers_delta),     *)
(* whatever the sign of the deltas and whoever owns the record, and leaves   *)
(* every other field and record as it was; for an id the registry does not   *)
(* hold it returns False and the registry is unchanged.                      *)
C31_AdjustCountsClamps ==
    [][\A file_id \in CountFileIds, d \in CountDeltas :
          UpdateSeedsPeersCall("Alice", file_id, d[1], d[2]) =>
             LET files == users["Alice"].resource_manager.files
                 files_after == users'["Alice"].resource_manager.files
             IN  IF file_id \in DOMAIN files
                 THEN /\ last'.ret
                      /\ DOMAIN files_after = DOMAIN files
                      /\ files_after[file_id].seeds
                            = Max0(files[file_id].seeds + d[1])
                      /\ files_after[file_id].peers
                            = Max0(files[file_id].peers + d[2])
                      /\ \A f \in FileFields \ {"seeds", "peers"} :
                            files_after[file_id][f] = files[file_id][f]
                      /\ \A id \in DOMAIN files \ {file_id} :
                            files_after[id] = files[id]
                 ELSE ~last'.ret /\ users' = users]_vars

\* calls have clamped the seeds of the sample file, which no user owns, from
\* 42 to 0 and its peers to 0, have raised the seeds of the published file,
\* and the last call named an id the registry does not hold
C31_Witness ==
    /\ "Alice" \in Registered
    /\ LET files == users["Alice"].resource_manager.files
       IN  /\ files[1].seeds = 0 /\ files[1].peers = 0
           /\ files[1].owner_address = ""
           /\ 4 \notin DOMAIN files
    /\ last.op = "update_seeds_peers" /\ ~last.ret

-----------------------------------------------------------------------------
\* the ids of the records of a list of files
IdsOf(file_list) == {file_list[i].id : i \in 1..Len(file_list)}

(* C32: deactivation is reversible and not destructive.  After the owner's   *)
(* update with is_active False the record is still what get_file returns,    *)
(* every other field as it was, and it is in neither get_active_files nor    *)
(* search_files; after the owner's update with is_active True it is in       *)
(* get_active_files and in search_files again.  No record is added or        *)
(* deleted by either update.                                                 *)
C32_DeactivationReversible ==
    [][\A file_id \in LifecycleFileIds, is_active \in BOOLEAN :
          (/\ update_my_file("Alice", file_id, [is_active |-> is_active])
           /\ file_id \in DOMAIN users["Alice"].resource_manager.files
           /\ users["Alice"].resource_manager.files[file_id].owner_address
                 = users["Alice"].address) =>
             LET rm == users["Alice"].resource_manager
                 rm_after == users'["Alice"].resource_manager
             IN  /\ last'.ret
                 /\ DOMAIN rm_after.files = DOMAIN rm.files
                 /\ get_file(rm_after, file_id)
                       = [rm.files[file_id] EXCEPT !.is_active = is_active]
                 /\ \A id \in DOMAIN rm.files \ {file_id} :
                       get_file(rm_after, id) = rm.files[id]
                 /\ (file_id \in IdsOf(get_active_files(rm_after))) = is_active
                 /\ (file_id \in IdsOf(search_files(rm_after, "", {}, {}, {})))
                       = is_active
                 /\ (file_id \in IdsOf(search_files(rm_after, "general", {0},
                                                    {Credits(1)}, {0})))
                       = is_active]_vars

\* the owner has switched on again a record that was switched off: it has
\* the download counted before, and is listed and found once more
C32_Witness ==
    /\ last.op = "update_my_file" /\ last.ret
    /\ last.tx.file_id = 4
    /\ last.tx.update_data.is_active
    /\ ~last.tx.before.is_active
    /\ LET rm == users["Alice"].resource_manager
       IN  /\ get_file(rm, 4) = [last.tx.before EXCEPT !.is_active = TRUE]
           /\ rm.files[4].seeds = 1
           /\ 4 \in IdsOf(get_active_files(rm))
           /\ 4 \in IdsOf(search_files(rm, "", {}, {}, {}))

-----------------------------------------------------------------------------
(* C33: in every reachable state every transaction of the pending pool and   *)
(* of every block has an amount of zero or more: no sequence of register,    *)
(* publish, registry update, download and mine calls makes a transaction     *)
(* with an amount below zero.                                                *)
C33_AmountsNonNegative ==
    /\ \A i \in 1..Len(pending_transactions) : pending_transactions[i].amount >= 0
    /\ \A p \in Positions(chain) : TxAt(chain, p).amount >= 0

-----------------------------------------------------------------------------
(* C34: within one registry the ids are unique and strictly increasing in    *)
(* the order of insertion, and no id is given out twice.  Every record is    *)
(* stored under its own id, below next_file_id; next_file_id never           *)
(* decreases; a record that appears has an id that is at least the           *)
(* next_file_id before the call, so above every id given out before, those   *)
(* of removed records included; and add_file uses up one id whether it       *)
(* succeeds or fails.                                                        *)
C34_IdsNeverReused ==
    /\ [](\A u \in Registered :
             LET rm == users[u].resource_manager
             IN  \A id \in DOMAIN rm.files :
                    rm.files[id].id = id /\ id < rm.next_file_id)
    /\ [][\A u \in Registered :
             LET rm == users[u].resource_manager
                 rm_after == users'[u].resource_manager
             IN  /\ rm_after.next_file_id >= rm.next_file_id
                 /\ \A id \in DOMAIN rm_after.files \ DOMAIN rm.files :
                       id >= rm.next_file_id
                 /\ (\E file_data \in AddFileDatas(users[u].address) :
                        AddFileCall(u, file_data)) =>
                       rm_after.next_file_id = rm.next_file_id + 1]_vars

\* the third id was given to a record after the record of the first id was
\* removed and the second id was used up by an add that failed or by a
\* record removed since
C34_Witness ==
    /\ last.op = "add_file" /\ last.ret
    /\ last.tx.file_id = 6
    /\ LET rm == users["Alice"].resource_manager
       IN  /\ DOMAIN rm.files \cap AddedFileIds = {6}
           /\ rm.next_file_id = 7

-----------------------------------------------------------------------------
\* how many times a transaction is in the pool, and in the blocks of the chain
InPool(tx) ==
    Cardinality({i \in 1..Len(pending_transactions) : pending_transactions[i] = tx})

InChain(tx) == Cardinality({p \in Positions(chain) : TxAt(chain, p) = tx})

\* this step is the return of an add_transaction(tx) that returned True
Admits(tx) ==
    \E t \in Threads :
       /\ threads[t].pc = "add_locked" /\ threads'[t].pc = "idle"
       /\ threads[t].transaction = tx
       /\ last'.ret

\* a mine_pending_transactions has appended its block and not yet cleared
\* the pool
Clearing == \E t \in Threads : threads[t].pc = "mine_appended"

\* the copies of a transaction that are held: those in blocks, and those in
\* the pool unless the pool is about to be cleared
Held(tx) == InChain(tx) + (IF Clearing THEN 0 ELSE InPool(tx))

(* C35 as stated: under every interleaving of add_transaction and            *)
(* mine_pending_transactions, in every state each transaction admitted is    *)
(* either in the pool or in exactly one block, never in both: the copies in  *)
(* pool and blocks together grow by one with each admission and change with  *)
(* no other step.                                                            *)
C35_AdmittedInPoolOrOneBlock ==
    [][\A tx \in ThreadTransactions :
          InPool(tx)' + InChain(tx)'
             = InPool(tx) + InChain(tx) + (IF Admits(tx) THEN 1 ELSE 0)]_vars

(* C35, corrected: the same holds in every state except those between the    *)
(* chain.append(block) and the clearing of the pool inside one               *)
(* mine_pending_transactions, where the lock is held and the transactions    *)
(* just confirmed are still in the pool.  The copies held grow by one with    *)
(* each admission and change with no other step: no admitted transaction is  *)
(* dropped by the clearing of the pool, none is confirmed twice, and no      *)
(* thread is ever inside add_transaction while another is inside             *)
(* mine_pending_transactions.                                                *)
C35_AdmittedHeldOnce ==
    /\ [][\A tx \in ThreadTransactions :
             Held(tx)' = Held(tx) + (IF Admits(tx) THEN 1 ELSE 0)]_vars
    /\ [](Cardinality(InRegion) <= 1)
    /\ [](Clearing =>
             pending_transactions
                = SubSeq(get_latest_block(chain).transactions, 1,
                         Len(get_latest_block(chain).transactions) - 1))

\* two blocks have been mined, each holds a transaction admitted before it,
\* a transaction admitted since is in the pool, and a thread is inside
\* add_transaction again
C35_Witness ==
    /\ Len(chain) = 3
    /\ Len(chain[2].transactions) = 2 /\ Len(chain[3].transactions) = 2
    /\ chain[3].transactions[1].transaction_type = "transfer"
    /\ last.op = "add_transaction" /\ last.ret
    /\ pending_transactions = <<last.tx>>
    /\ InChain(last.tx) = 1
    /\ \E t \in Threads : threads[t].pc = "add_locked"

-----------------------------------------------------------------------------
\* the initial_credit transactions, in the pool and in the blocks, paid to an
\* identity made for the handle
EndowmentsOf(username) ==
    LET mine(tx) == /\ tx.transaction_type = "initial_credit"
                    /\ tx.receiver \in {Address(username, now) : now \in 0..MaxClock}
    IN  Cardinality({i \in 1..Len(pending_transactions) :
                        mine(pending_transactions[i])})
        + Cardinality({p \in Positions(chain) : mine(TxAt(chain, p))})

\* the User objects made for the handle: those threads hold that have yet to
\* assign them, and the one the system holds
UsersMadeFor(username) ==
    Cardinality({t \in Threads : /\ threads[t].pc = "register_constructed"
                                 /\ threads[t].address = username})
    + (IF username \in Registered THEN 1 ELSE 0)

(* C36: when threads call register_user concurrently with the same new       *)
(* handle, at most one of them succeeds: at most one User is ever made for   *)
(* the handle, and at most one initial_credit transaction for the handle is  *)
(* ever added to the pool.                                                   *)
C36_OneRegistrationPerHandle ==
    \A username \in Handles :
       /\ UsersMadeFor(username) <= 1
       /\ EndowmentsOf(username) <= 1

-----------------------------------------------------------------------------
\* the sum of the amounts of the transactions of the pool sent by S
RECURSIVE PendingSentBy(_, _)
PendingSentBy(pool, S) ==
    IF pool = <<>> THEN 0
    ELSE (IF Head(pool).sender = S THEN Head(pool).amount ELSE 0)
         + PendingSentBy(Tail(pool), S)

(* C37: in every reachable state, for every identity S other than "0", the   *)
(* amounts of the transactions of the pending pool sent by S sum up to no    *)
(* more than the balance of S, so that mining the pool cannot take a balance *)
(* below zero; repeated downloads by one user included.                      *)
C37_PendingWithinBalance ==
    \A S \in Identities \ {"0"} :
       PendingSentBy(pending_transactions, S) <= get_balance(chain, S)

-----------------------------------------------------------------------------
\* the transactions of the pool and of the blocks
AllTransactions ==
    {pending_transactions[i] : i \in 1..Len(pending_transactions)}
    \cup {TxAt(chain, p) : p \in Positions(chain)}

(* C38: every resource_download transaction admitted to the pool, confirmed  *)
(* since or not, has as receiver the identity of a registered user, the one  *)
(* whose registry holds the resource; no download pays the empty identity    *)
(* or an identity that is no user's.                                         *)
C38_DownloadPaysRegisteredOwner ==
    \A tx \in AllTransactions :
       tx.transaction_type = "resource_download" =>
          /\ tx.receiver # ""
          /\ \E u \in Registered :
                /\ users[u].address = tx.receiver
                /\ tx.resource_data.id \in DOMAIN users[u].resource_manager.files

-----------------------------------------------------------------------------
-----------------------------------------------------------------------------
(* C40: every resource that declare_user_resources(username, file_data)      *)
(* inserts has as owner_address the identity of the publishing user,         *)
(* whatever owner_address file_data names; the resource_declaration goes to  *)
(* the publisher and carries the record inserted; no registry of another     *)
(* user changes.  So no user makes, by publishing, a resource another        *)
(* identity owns.                                                            *)
C40_PublisherOwns ==
    /\ [][\A r \in OwnerPublishRequests :
             (/\ r[1] \in Registered
              /\ declare_user_resources(r[1], r[2])
              /\ last'.ret) =>
                LET rm == users[r[1]].resource_manager
                    rm_after == users'[r[1]].resource_manager
                    file_id == rm.next_file_id
                    tx == pending_transactions'[Len(pending_transactions')]
                IN  /\ DOMAIN rm_after.files = DOMAIN rm.files \cup {file_id}
                    /\ file_id \notin DOMAIN rm.files
                    /\ rm_after.files[file_id].owner_address = users[r[1]].address
                    /\ Len(pending_transactions') = Len(pending_transactions) + 1
                    /\ tx.transaction_type = "resource_declaration"
                    /\ tx.receiver = users[r[1]].address
                    /\ tx.resource_data = rm_after.files[file_id]
                    /\ \A u \in Registered \ {r[1]} : users'[u] = users[u]]_vars
    /\ [](\A u \in Registered :
             \A id \in DOMAIN users[u].resource_manager.files :
                users[u].resource_manager.files[id].owner_address
                   \in {"", users[u].address})
    /\ [](\A tx \in AllTransactions :
             tx.transaction_type = "resource_declaration" =>
                \E u \in Registered :
                   /\ tx.receiver = users[u].address
                   /\ tx.resource_data.owner_address = users[u].address)

\* Bob has published a file with a dictionary that named the identity of
\* Alice as the owner: the record is Bob's, and so is the declaration, which
\* a block confirms by now
C40_Witness ==
    /\ Registered = Handles
    /\ users["Alice"].address = Address("Alice", 0)
    /\ 4 \in DOMAIN users["Bob"].resource_manager.files
    /\ users["Bob"].resource_manager.files[4].owner_address = users["Bob"].address
    /\ 4 \notin DOMAIN users["Alice"].resource_manager.files
    /\ \E p \in Positions(chain) :
          /\ TxAt(chain, p).transaction_type = "resource_declaration"
          /\ TxAt(chain, p).receiver = users["Bob"].address
    /\ get_balance(chain, users["Alice"].address) = 0

====
